---- MODULE Spec2Model ----
(***************************************************************************)
(* Scribble Discord bot: the voice-session engine (src/src/actions.py      *)
(* handle_voice_join and its closures, src/src/sound_manager.py), the      *)
(* wake-word activation engine and per-user cooldown (src/src/bot.py) and  *)
(* the action dispatcher with its hourly quota (src/src/actions.py).       *)
(*                                                                         *)
(* Coroutines are modelled at the granularity of asyncio: one action is    *)
(* the code a coroutine runs between two suspension points (await).        *)
(* The discord.py calls the code makes (connect, disconnect, is_connected, *)
(* play) are modelled by what the code relies on:                          *)
(*   - connect raises ClientException when the guild already has a voice   *)
(*     client (the code catches it, actions.py:466), registers the client  *)
(*     before the handshake and unregisters it when a disconnect finishes; *)
(*   - whether is_connected() already answers False while a disconnect is  *)
(*     still awaited depends on the installed discord.py (the repository   *)
(*     pins no version), so it is chosen once, in Init (eager_clear).      *)
(***************************************************************************)
EXTENDS Integers, Sequences, FiniteSets, Bags, TLC

\* ------------------------------------------------------------------ bounds
MaxOps      == 2   \* requests (joins and leaves) in one run of the whole engine
MaxSoundOps == 3   \* requests in one run of the SoundManager alone
MaxTicks    == 2   \* clock advances in one run
MaxMsgs     == 3   \* messages delivered to on_message in one run
MaxEdits    == 1   \* edits of the channel blacklist file in one run
MaxCalls    == 4   \* execute_action calls in one run
MaxCapacity == 2   \* largest configured discord.max_actions_per_hour explored
MaxCommands == 2   \* moderation commands followed through their handler in one run
MaxLen      == 4   \* characters of a directive handed to parse_action_args

\* the voice channels of a guild
Channels == {"a", "b"}
\* a request opens at most one connection
ConnIds  == 1..(IF MaxOps >= MaxSoundOps THEN MaxOps ELSE MaxSoundOps)

\* the optional duration argument of a vcjoin directive: absent, or an integer
DurationArgs == {<<>>, <<45>>}

\* the guild and its text channel the engines are followed in, the guilds and text
\* channels of a run that follows two of each, and one direct-message channel
OneGuild        == {"g1"}
OneTextChannel  == {"c1"}
TwoGuilds       == {"g1", "g2"}
TwoTextChannels == {"c1", "c2"}
DMChannel       == "dm"
Users        == {"u1"}

\* what should_respond reads of a message text: whether the wake word is a substring
\* of it, and the best fuzz.ratio (0..100) of one of its tokens with the bot name
Contents == {[wake |-> FALSE, score |-> 0], [wake |-> FALSE, score |-> 84],
             [wake |-> FALSE, score |-> 85], [wake |-> TRUE, score |-> 0]}

\* random.randint(1, 10): the rolls on either side of the default chance
Rolls == {1, 2}

\* seconds between two events of the conversation engine / of the action dispatcher
ConvGaps   == {599, 600, 601}
ActionGaps == {1, 3599, 3600, 86400}

\* action types a directive may name: moderation ones, always-enabled ones, unknown
ActionTypes == {"timeout", "ban", "dm", "vcjoin", "dance"}

\* the users whose cooldown is followed, and the seconds between two calls of
\* check_rate_limit: around the cooldown, and around a whole day
RateUsers == {"u1", "u2"}
RateGaps  == {1, 2, 3, 86399, 86400, 86403}

\* the commands followed through their handler
HandlerTypes == {"timeout", "ban", "nickname", "dm"}

\* the guild members a command may resolve to: id and the two permission flags
Members == {[id |-> 1, administrator |-> FALSE, manage_guild |-> FALSE],
            [id |-> 2, administrator |-> FALSE, manage_guild |-> FALSE],
            [id |-> 2, administrator |-> TRUE, manage_guild |-> FALSE],
            [id |-> 2, administrator |-> FALSE, manage_guild |-> TRUE]}
NoMember == [id |-> 0, administrator |-> FALSE, manage_guild |-> FALSE]

\* a user id as settings.json may hold it: a JSON string or a JSON number
JsonString(id) == [json |-> "string", id |-> id]
JsonNumber(id) == [json |-> "number", id |-> id]

\* the safety.protected_user_ids / safety.admin_user_ids lists explored
IdConfigs == {<<{}, {}>>, <<{JsonString(1)}, {}>>, <<{}, {JsonString(1)}>>, <<{JsonNumber(1)}, {}>>}

\* the second argument of a timeout directive: a token int() raises ValueError for,
\* or an integer
NotANumber == [int |-> FALSE, value |-> 0]
TimeoutArgs == {NotANumber} \cup {[int |-> TRUE, value |-> n] : n \in {0, 2, 3, 60, 61, 999}}

\* how an awaited discord call ends: it returns, or raises discord.Forbidden,
\* discord.HTTPException, or another exception (a transport error such as
\* aiohttp.ClientConnectorError or asyncio.TimeoutError)
Outcomes == {"ok", "Forbidden", "HTTPException", "Exception"}

\* the characters a directive is made of: a lower-case and an upper-case letter, a
\* blank, the two quotes and the backslash
Chars == {"a", "B", " ", "'", "\"", "\\"}
Directives == UNION {[1..n -> Chars] : n \in 0..MaxLen}

\* timeout "a b" 5
Examples == {<<"t", "i", "m", "e", "o", "u", "t", " ", "\"", "a", " ", "b", "\"", " ", "5">>}

\* ------------------------------------------------------- program constants
DefaultVoiceMinutes == 5
MaxVoiceMinutes == 30
ConversationTimeoutMinutes == 10
NameClosenessThreshold == 85
RandomResponseChance == 10
CommandCooldownSeconds == 3
ActionWindowSeconds == 3600
DefaultMaxActions == 10
DefaultMaxTimeout == 60

\* the safety.max_timeout_minutes and discord.max_actions_per_hour values the
\* handlers are followed under
MaxTimeouts == {2, DefaultMaxTimeout}
Capacities == {1, DefaultMaxActions}

VARIABLES
    eager_clear,            \* discord.py clears is_connected() at the start of disconnect()
    conn,                   \* every VoiceClient object created so far
    voice_client,           \* guild.voice_client: the guild's registered VoiceClient, 0 = None
    active_voice_clients,   \* SoundManager.active_voice_clients: guild -> client (0 = no entry)
    loop,                   \* state of the sound_loop task of each SoundManager client
    loopCancel,             \* task.cancel() was requested on that task
    tasks,                  \* bag of the suspended coroutines
    sound_files,            \* the sounds directory holds at least one supported file
    available_sounds,       \* SoundManager.available_sounds is non-empty
    enabled,                \* SoundManager.enabled
    connectCalls,           \* voice_channel.connect() calls per guild
    discCalls,              \* disconnect() calls per client, by caller
    played,                 \* voice_client.play() was called on the client
    emptyJoin,              \* the client was joined while the sounds directory was empty
    nJoins, nSMJoins, nLeaves, \* requests made so far, by kind
    budget,                 \* requests this run may make
    now,                    \* datetime.now(), in seconds since the bot started
    nTicks,                 \* clock advances so far
    wake_word_mode_enabled, \* ScribbleBot.wake_word_mode_enabled
    active_conversations,   \* ScribbleBot.active_conversations, per channel
    last_response,          \* ScribbleBot.last_response, per user (-1 = no entry)
    blacklist,              \* the channels is_blacklisted_channel answers True for
    seenWake,               \* a message matching the wake word or the name reached the channel
    prevMsg,                \* when the previous message reached the channel (-1 = none)
    spaced,                 \* every message since the channel's activation came less than
                            \* the timeout after the one before it
    msg,                    \* the last message on_message handled, and what it decided
    nMsgs, nEdits,
    check,                  \* the last check_rate_limit call made on its own, and its answer
    max_actions,            \* discord.max_actions_per_hour
    safety,                 \* the safety.enable_* flags
    action_history,         \* ActionHandler.action_history
    admitted,               \* when check_action_rate_limit returned True, in order
    call,                   \* the last execute_action call, and what it decided
    nCalls,
    protected_user_ids,     \* safety.protected_user_ids
    admin_user_ids,         \* safety.admin_user_ids
    max_timeout,            \* safety.max_timeout_minutes
    job,                    \* the execute_action call followed through its handler
    nCommands,
    directive,              \* the action string of the AI response
    parsed,                 \* what parse_action_args made of it
    guild_members,          \* guild.members, in the order the guild lists them
    username,               \* the username argument of find_member
    found                   \* what find_member made of it

convVars == <<wake_word_mode_enabled, active_conversations, last_response, blacklist,
              seenWake, prevMsg, spaced, msg, nMsgs, nEdits, check>>

findVars == <<guild_members, username, found>>

actionVars == <<max_actions, safety, action_history, admitted, call, nCalls,
                protected_user_ids, admin_user_ids, max_timeout, job, nCommands,
                directive, parsed, findVars>>

clockVars == <<now, nTicks>>

voiceVars == <<eager_clear, conn, voice_client, active_voice_clients, loop, loopCancel,
               tasks, sound_files, available_sounds, enabled, connectCalls, discCalls,
               played, emptyJoin, nJoins, nSMJoins, nLeaves, budget>>

vars == <<clockVars, convVars, actionVars, voiceVars>>

\* the guilds and the channels of the run
Guilds       == DOMAIN voice_client
TextChannels == DOMAIN prevMsg
MsgChannels  == TextChannels \cup {DMChannel}

\* ----------------------------------------------------------------- helpers
Invocations == nJoins + nSMJoins + nLeaves
Min2(a, b) == IF a <= b THEN a ELSE b

Task(type, pc, g, c, ch, min) ==
    [type |-> type, pc |-> pc, g |-> g, c |-> c, ch |-> ch, min |-> min]

Pending == BagToSet(tasks)
Spawn(B, t) == B (+) SetToBag({t})
Drop(B, t) == B (-) SetToBag({t})

NoConn == [g |-> "", ch |-> "", st |-> "none", by |-> "", playing |-> FALSE]
NoCalls == [leave |-> 0, timer |-> 0, sched |-> 0, switch |-> 0]

\* VoiceClient.is_connected()
IsConnected(c) ==
    \/ conn[c].st = "open"
    \/ conn[c].st = "closing" /\ ~eager_clear

\* the VoiceClient object the next connect() creates
FreeConns == {c \in ConnIds : conn[c].st = "none"}
NewConn == CHOOSE c \in FreeConns : \A d \in FreeConns : c <= d

\* a variant of the duration of a vcjoin that takes the request as it is
VoiceMinutesAsAsked(arg) ==
    IF Len(arg) = 0 THEN DefaultVoiceMinutes ELSE arg[1]

\* minutes = 5; if len(args) > 1: minutes = min(int(args[1]), 30)
VoiceMinutes(arg) ==
    IF Len(arg) = 0 THEN DefaultVoiceMinutes ELSE Min2(arg[1], MaxVoiceMinutes)

\* Connectable.connect(): "Already connected to a voice channel" guard
AlreadyRegistered(g) == voice_client[g] # 0

\* disconnect() is entered on client c by a caller of the given kind
DiscBegin(c, who) ==
    /\ conn' = [conn EXCEPT ![c].st = IF @ = "open" THEN "closing" ELSE @]
    /\ discCalls' = [discCalls EXCEPT ![c][who] = @ + 1]

\* the awaited disconnect() of client c returns to its caller
ConnAfterDisc(c) == [conn EXCEPT ![c].st = "closed"]
ClientAfterDisc(c) ==
    [g \in Guilds |-> IF voice_client[g] = c THEN 0 ELSE voice_client[g]]

\* the state after ScribbleBot and SoundManager are constructed. enabled is read by
\* join_voice_channel alone, which returns at once when it is False: such a run is a
\* run of the enabled engine with those requests left out, so one start with the
\* sound system disabled is explored.
StartIn(n, guilds) ==
    /\ budget = n
    /\ eager_clear \in BOOLEAN
    /\ conn = [c \in ConnIds |-> NoConn]
    /\ voice_client = [g \in guilds |-> 0]
    /\ active_voice_clients = [g \in guilds |-> 0]
    /\ loop = [c \in ConnIds |-> "none"]
    /\ loopCancel = [c \in ConnIds |-> FALSE]
    /\ tasks = EmptyBag
    /\ sound_files \in BOOLEAN
    /\ available_sounds = sound_files
    /\ enabled \in BOOLEAN
    /\ ~enabled => eager_clear /\ sound_files
    /\ connectCalls = [g \in guilds |-> 0]
    /\ discCalls = [c \in ConnIds |-> NoCalls]
    /\ played = [c \in ConnIds |-> FALSE]
    /\ emptyJoin = [c \in ConnIds |-> FALSE]
    /\ nJoins = 0 /\ nSMJoins = 0 /\ nLeaves = 0

Start(n) == StartIn(n, OneGuild)

\* ------------------------------------------------- ActionHandler.handle_voice_join
\* channel.guild.voice_client.channel == voice_channel
SameChannel(c, ch) == conn[c].ch = ch

\* voice_channel.connect() called by a coroutine: B is the bag without the caller,
\* waiting the caller suspended on the handshake
ConnectCall(g, ch, by, B, waiting) ==
    /\ connectCalls' = [connectCalls EXCEPT ![g] = @ + 1]
    /\ IF AlreadyRegistered(g)
       THEN /\ tasks' = B          \* ClientException: caught, reported, the caller returns
            /\ UNCHANGED <<conn, voice_client>>
       ELSE /\ FreeConns # {}
            /\ conn' = [conn EXCEPT ![NewConn] =
                          [g |-> g, ch |-> ch, st |-> "handshake", by |-> by, playing |-> FALSE]]
            /\ voice_client' = [voice_client EXCEPT ![g] = NewConn]
            /\ tasks' = Spawn(B, [waiting EXCEPT !.c = NewConn])

\* handle_voice_join up to its first await (channel found, permissions granted)
HandleVoiceJoin(g, ch, arg) ==
    /\ Invocations < budget
    /\ nJoins' = nJoins + 1
    /\ LET m == VoiceMinutes(arg)
           vc == voice_client[g]
       IN IF vc # 0 /\ IsConnected(vc)
          THEN IF SameChannel(vc, ch)
               THEN /\ tasks' = Spawn(tasks, Task("hvj", "ack", g, vc, ch, m))
                    /\ UNCHANGED <<conn, voice_client, connectCalls, discCalls>>
               ELSE /\ DiscBegin(vc, "switch")
                    /\ tasks' = Spawn(tasks, Task("hvj", "switch", g, vc, ch, m))
                    /\ UNCHANGED <<voice_client, connectCalls>>
          ELSE /\ ConnectCall(g, ch, "h", tasks, Task("hvj", "connecting", g, 0, ch, m))
               /\ UNCHANGED discCalls
    /\ UNCHANGED <<clockVars, convVars, actionVars, budget, eager_clear,
                   active_voice_clients, loop, loopCancel, sound_files, available_sounds,
                   enabled, played, emptyJoin, nSMJoins, nLeaves>>

\* a variant of HvjAck that creates auto_disconnect before it sends the reply
HvjAckTimerFirst(t, sent) ==
    /\ t \in Pending /\ t.type = "hvj" /\ t.pc = "ack"
    /\ tasks' = Spawn(Drop(tasks, t), Task("timer", "auto", t.g, t.c, "", t.min))
    /\ UNCHANGED <<clockVars, convVars, actionVars, budget, eager_clear, conn,
                   voice_client, active_voice_clients, loop, loopCancel, sound_files,
                   available_sounds, enabled, connectCalls, discCalls, played, emptyJoin,
                   nJoins, nSMJoins, nLeaves>>

\* same-channel re-join: the "I'll stay for N more minutes" send returns or raises;
\* only after it returned is auto_disconnect created
HvjAck(t, sent) ==
    /\ t \in Pending /\ t.type = "hvj" /\ t.pc = "ack"
    /\ IF sent
       THEN /\ tasks' = Spawn(Drop(tasks, t), Task("timer", "auto", t.g, t.c, "", t.min))
       ELSE /\ tasks' = Drop(tasks, t)
    /\ UNCHANGED <<clockVars, convVars, actionVars, budget, eager_clear, conn,
                   voice_client, active_voice_clients, loop, loopCancel, sound_files,
                   available_sounds, enabled, connectCalls, discCalls, played, emptyJoin,
                   nJoins, nSMJoins, nLeaves>>

\* other-channel re-join: the awaited disconnect of the old client returns
HvjSwitchDone(t) ==
    /\ t \in Pending /\ t.type = "hvj" /\ t.pc = "switch"
    /\ conn' = ConnAfterDisc(t.c)
    /\ voice_client' = ClientAfterDisc(t.c)
    /\ tasks' = Spawn(Drop(tasks, t), [t EXCEPT !.pc = "grace", !.c = 0])
    /\ UNCHANGED <<clockVars, convVars, actionVars, budget, eager_clear,
                   active_voice_clients, loop, loopCancel, sound_files, available_sounds,
                   enabled, connectCalls, discCalls, played, emptyJoin, nJoins, nSMJoins,
                   nLeaves>>

\* the disconnect_delay sleep is over: connect to the requested channel
HvjGraceDone(t) ==
    /\ t \in Pending /\ t.type = "hvj" /\ t.pc = "grace"
    /\ ConnectCall(t.g, t.ch, "h", Drop(tasks, t), [t EXCEPT !.pc = "connecting"])
    /\ UNCHANGED <<clockVars, convVars, actionVars, budget, eager_clear,
                   active_voice_clients, loop, loopCancel, sound_files, available_sounds,
                   enabled, discCalls, played, emptyJoin, nJoins, nSMJoins, nLeaves>>

\* the handshake ends: the client is returned, or connect raises and unregisters it
HvjConnected(t, ok) ==
    /\ t \in Pending /\ t.type = "hvj" /\ t.pc = "connecting"
    /\ IF ok
       THEN /\ conn' = [conn EXCEPT ![t.c].st = "open"]
            /\ tasks' = Spawn(Drop(tasks, t), [t EXCEPT !.pc = "joined"])
            /\ UNCHANGED voice_client
       ELSE /\ conn' = ConnAfterDisc(t.c)
            /\ voice_client' = ClientAfterDisc(t.c)
            /\ tasks' = Drop(tasks, t)
    /\ UNCHANGED <<clockVars, convVars, actionVars, budget, eager_clear,
                   active_voice_clients, loop, loopCancel, sound_files, available_sounds,
                   enabled, connectCalls, discCalls, played, emptyJoin, nJoins, nSMJoins,
                   nLeaves>>

\* voice_client.play(source, after=...): ClientException when not connected or
\* already playing
CanPlay(c) == IsConnected(c) /\ ~conn[c].playing

\* the "I joined" send returned: start max_time_disconnect, then play the first
\* sound or, with no sound file, start timeout_disconnect. If the send raised, the
\* handler reports "couldn't join" and returns.
HvjJoined(t, sent) ==
    /\ t \in Pending /\ t.type = "hvj" /\ t.pc = "joined"
    /\ LET timer == Task("timer", "max", t.g, t.c, "", t.min)
           rest == Drop(tasks, t)
       IN IF ~sent
          THEN /\ tasks' = rest
               /\ UNCHANGED <<conn, played, emptyJoin>>
          ELSE IF sound_files
               THEN /\ tasks' = Spawn(rest, timer)
                    /\ IF CanPlay(t.c)
                       THEN /\ conn' = [conn EXCEPT ![t.c].playing = TRUE]
                            /\ played' = [played EXCEPT ![t.c] = TRUE]
                       ELSE UNCHANGED <<conn, played>>
                    /\ UNCHANGED emptyJoin
               ELSE /\ tasks' = Spawn(Spawn(rest, timer), timer)
                    /\ emptyJoin' = [emptyJoin EXCEPT ![t.c] = TRUE]
                    /\ UNCHANGED <<conn, played>>
    /\ UNCHANGED <<clockVars, convVars, actionVars, budget, eager_clear, voice_client,
                   active_voice_clients, loop, loopCancel, sound_files, available_sounds,
                   enabled, connectCalls, discCalls, nJoins, nSMJoins, nLeaves>>

\* ------------------------------------------- SoundManager.leave_voice_channel
\* if guild_id not in self.active_voice_clients: return
InRegistry(g) == active_voice_clients[g] # 0

\* task_info['task'].done()
LoopDone(c) == loop[c] = "done"

\* leave_voice_channel from "if task_info['client'].is_connected()" on: B is the bag
\* without the caller, t the caller. Awaits the disconnect, or deletes the entry.
LeaveRelease(B, t) ==
    IF IsConnected(t.c)
    THEN /\ DiscBegin(t.c, "leave")
         /\ tasks' = Spawn(B, [t EXCEPT !.pc = "disc"])
         /\ UNCHANGED active_voice_clients
    ELSE /\ active_voice_clients' = [active_voice_clients EXCEPT ![t.g] = 0]
         /\ tasks' = B
         /\ UNCHANGED <<conn, discCalls>>

\* a variant of LeaveEnter that, finding no entry, falls back on guild.voice_client
LeaveEnterGuildClient(g, B, origin) ==
    IF ~InRegistry(g)
    THEN IF voice_client[g] # 0 /\ IsConnected(voice_client[g])
         THEN /\ DiscBegin(voice_client[g], "leave")
              /\ tasks' = Spawn(B, Task(origin, "disc", g, voice_client[g], "", 0))
              /\ UNCHANGED <<active_voice_clients, loopCancel>>
         ELSE /\ tasks' = B
              /\ UNCHANGED <<conn, discCalls, active_voice_clients, loopCancel>>
    ELSE LET c == active_voice_clients[g]
             t == Task(origin, "await_task", g, c, "", 0)
         IN IF ~LoopDone(c)
            THEN /\ loopCancel' = [loopCancel EXCEPT ![c] = TRUE]
                 /\ tasks' = Spawn(B, t)
                 /\ UNCHANGED <<conn, discCalls, active_voice_clients>>
            ELSE /\ LeaveRelease(B, t)
                 /\ UNCHANGED loopCancel

\* leave_voice_channel(g) up to its first await, called by `origin`: "leave" is a
\* direct call, "leave_auto" the call made by an expired auto_disconnect
LeaveEnter(g, B, origin) ==
    IF ~InRegistry(g)
    THEN /\ tasks' = B
         /\ UNCHANGED <<conn, discCalls, active_voice_clients, loopCancel>>
    ELSE LET c == active_voice_clients[g]
             t == Task(origin, "await_task", g, c, "", 0)
         IN IF ~LoopDone(c)
            THEN /\ loopCancel' = [loopCancel EXCEPT ![c] = TRUE]
                 /\ tasks' = Spawn(B, t)
                 /\ UNCHANGED <<conn, discCalls, active_voice_clients>>
            ELSE /\ LeaveRelease(B, t)
                 /\ UNCHANGED loopCancel

LeaveVoiceChannel(g) ==
    /\ Invocations < budget
    /\ nLeaves' = nLeaves + 1
    /\ LeaveEnter(g, tasks, "leave")
    /\ UNCHANGED <<clockVars, convVars, actionVars, budget, eager_clear, voice_client,
                   loop, sound_files, available_sounds, enabled, connectCalls, played,
                   emptyJoin, nJoins, nSMJoins>>

\* "await task_info['task']" returns (or raises CancelledError, which is swallowed)
LeaveTaskAwaited(t) ==
    /\ t \in Pending /\ t.type \in {"leave", "leave_auto"} /\ t.pc = "await_task"
    /\ LoopDone(t.c)
    /\ LeaveRelease(Drop(tasks, t), t)
    /\ UNCHANGED <<clockVars, convVars, actionVars, budget, eager_clear, voice_client,
                   loop, loopCancel, sound_files, available_sounds, enabled, connectCalls,
                   played, emptyJoin, nJoins, nSMJoins, nLeaves>>

\* the awaited disconnect returns; "del self.active_voice_clients[guild_id]" (a
\* KeyError, when the entry is gone, is caught by the outer except)
LeaveDiscDone(t) ==
    /\ t \in Pending /\ t.type \in {"leave", "leave_auto"} /\ t.pc = "disc"
    /\ conn' = ConnAfterDisc(t.c)
    /\ voice_client' = ClientAfterDisc(t.c)
    /\ active_voice_clients' = [active_voice_clients EXCEPT ![t.g] = 0]
    /\ tasks' = Drop(tasks, t)
    /\ UNCHANGED <<clockVars, convVars, actionVars, budget, eager_clear, loop, loopCancel,
                   sound_files, available_sounds, enabled, connectCalls, discCalls, played,
                   emptyJoin, nJoins, nSMJoins, nLeaves>>

\* ------------------------------------------------------------ duration timers
\* max_time_disconnect / timeout_disconnect: the sleep is over
TimerMaxFire(t) ==
    /\ t \in Pending /\ t.type = "timer" /\ t.pc = "max"
    /\ IF IsConnected(t.c)
       THEN /\ DiscBegin(t.c, "timer")
            /\ tasks' = Spawn(Drop(tasks, t), [t EXCEPT !.pc = "disc"])
       ELSE /\ tasks' = Drop(tasks, t)
            /\ UNCHANGED <<conn, discCalls>>
    /\ UNCHANGED <<clockVars, convVars, actionVars, budget, eager_clear, voice_client,
                   active_voice_clients, loop, loopCancel, sound_files, available_sounds,
                   enabled, connectCalls, played, emptyJoin, nJoins, nSMJoins, nLeaves>>

\* the timer's disconnect returns; it sends "Time's up!" and ends
TimerDiscDone(t) ==
    /\ t \in Pending /\ t.type = "timer" /\ t.pc = "disc"
    /\ conn' = ConnAfterDisc(t.c)
    /\ voice_client' = ClientAfterDisc(t.c)
    /\ tasks' = Drop(tasks, t)
    /\ UNCHANGED <<clockVars, convVars, actionVars, budget, eager_clear,
                   active_voice_clients, loop, loopCancel, sound_files, available_sounds,
                   enabled, connectCalls, discCalls, played, emptyJoin, nJoins, nSMJoins,
                   nLeaves>>

\* auto_disconnect: the sleep is over, it calls leave_voice_channel(guild.id)
TimerAutoFire(t) ==
    /\ t \in Pending /\ t.type = "timer" /\ t.pc = "auto"
    /\ LeaveEnter(t.g, Drop(tasks, t), "leave_auto")
    /\ UNCHANGED <<clockVars, convVars, actionVars, budget, eager_clear, voice_client,
                   loop, sound_files, available_sounds, enabled, connectCalls, played,
                   emptyJoin, nJoins, nSMJoins, nLeaves>>

\* ------------------------------------------- SoundManager.join_voice_channel
\* a variant of JoinVoiceChannel without the "if not self.available_sounds" return
JoinVoiceChannelUnchecked(g, ch) ==
    /\ Invocations < budget
    /\ nSMJoins' = nSMJoins + 1
    /\ IF ~enabled \/ InRegistry(g)
       THEN UNCHANGED <<conn, voice_client, connectCalls, tasks>>
       ELSE ConnectCall(g, ch, "sm", tasks, Task("join", "connecting", g, 0, ch, 0))
    /\ UNCHANGED <<clockVars, convVars, actionVars, budget, eager_clear,
                   active_voice_clients, loop, loopCancel, sound_files, available_sounds,
                   enabled, discCalls, played, emptyJoin, nJoins, nLeaves>>

JoinVoiceChannel(g, ch) ==
    /\ Invocations < budget
    /\ nSMJoins' = nSMJoins + 1
    /\ IF ~enabled
       THEN UNCHANGED <<conn, voice_client, connectCalls, tasks>>
       ELSE IF ~available_sounds
       THEN UNCHANGED <<conn, voice_client, connectCalls, tasks>>
       ELSE IF InRegistry(g)
       THEN UNCHANGED <<conn, voice_client, connectCalls, tasks>>
       ELSE /\ ConnectCall(g, ch, "sm", tasks, Task("join", "connecting", g, 0, ch, 0))
    /\ UNCHANGED <<clockVars, convVars, actionVars, budget, eager_clear,
                   active_voice_clients, loop, loopCancel, sound_files, available_sounds,
                   enabled, discCalls, played, emptyJoin, nJoins, nLeaves>>

\* the handshake ends: create the sound_loop task and store the entry, or return False
JoinConnected(t, ok) ==
    /\ t \in Pending /\ t.type = "join" /\ t.pc = "connecting"
    /\ tasks' = Drop(tasks, t)
    /\ IF ok
       THEN /\ conn' = [conn EXCEPT ![t.c].st = "open"]
            /\ loop' = [loop EXCEPT ![t.c] = "init"]
            /\ active_voice_clients' = [active_voice_clients EXCEPT ![t.g] = t.c]
            /\ UNCHANGED voice_client
       ELSE /\ conn' = ConnAfterDisc(t.c)
            /\ voice_client' = ClientAfterDisc(t.c)
            /\ UNCHANGED <<loop, active_voice_clients>>
    /\ UNCHANGED <<clockVars, convVars, actionVars, budget, eager_clear, loopCancel,
                   sound_files, available_sounds, enabled, connectCalls, discCalls, played,
                   emptyJoin, nJoins, nSMJoins, nLeaves>>

\* ------------------------------------------------------ SoundManager.sound_loop
\* while voice_client.is_connected() and guild_id in self.active_voice_clients
LoopGoesOn(c) == IsConnected(c) /\ InRegistry(conn[c].g)

\* "Cleanup when loop ends": the guild's entry is deleted, whichever it is
RegistryAfterLoop(c) == [active_voice_clients EXCEPT ![conn[c].g] = 0]

\* a sleep of the loop returns: the first one leads to the while test, the interval
\* one to the double-check and play_random_sound
LoopWake(c) ==
    /\ loop[c] \in {"init", "interval"}
    /\ ~loopCancel[c]
    /\ IF ~LoopGoesOn(c)
       THEN /\ loop' = [loop EXCEPT ![c] = "done"]
            /\ active_voice_clients' = RegistryAfterLoop(c)
            /\ UNCHANGED <<conn, played>>
       ELSE /\ loop' = [loop EXCEPT ![c] = "interval"]
            /\ IF loop[c] = "interval" /\ available_sounds /\ sound_files /\ ~conn[c].playing
               THEN /\ conn' = [conn EXCEPT ![c].playing = TRUE]
                    /\ played' = [played EXCEPT ![c] = TRUE]
               ELSE UNCHANGED <<conn, played>>
            /\ UNCHANGED active_voice_clients
    /\ UNCHANGED <<clockVars, convVars, actionVars, budget, eager_clear, voice_client,
                   loopCancel, tasks, sound_files, available_sounds, enabled, connectCalls,
                   discCalls, emptyJoin, nJoins, nSMJoins, nLeaves>>

\* the try body raises before the interval sleep is reached (random.randint with
\* min_interval_seconds above max_interval_seconds): "except Exception" logs and
\* sleeps 10 seconds, then the while test is made again
LoopBackOff(c) ==
    /\ loop[c] \in {"init", "backoff"}
    /\ ~loopCancel[c]
    /\ IF ~LoopGoesOn(c)
       THEN /\ loop' = [loop EXCEPT ![c] = "done"]
            /\ active_voice_clients' = RegistryAfterLoop(c)
       ELSE /\ loop' = [loop EXCEPT ![c] = "backoff"]
            /\ UNCHANGED active_voice_clients
    /\ UNCHANGED <<clockVars, convVars, actionVars, budget, eager_clear, conn,
                   voice_client, loopCancel, tasks, sound_files, available_sounds, enabled,
                   connectCalls, discCalls, played, emptyJoin, nJoins, nSMJoins, nLeaves>>

\* a variant of LoopCancelled that plays one more sound before the task ends
LoopCancelledAfterPlay(c) ==
    /\ loop[c] \in {"init", "interval", "backoff"}
    /\ loopCancel[c]
    /\ loop' = [loop EXCEPT ![c] = "done"]
    /\ conn' = [conn EXCEPT ![c].playing = TRUE]
    /\ played' = [played EXCEPT ![c] = TRUE]
    /\ active_voice_clients' =
          IF loop[c] = "interval" THEN RegistryAfterLoop(c) ELSE active_voice_clients
    /\ UNCHANGED <<clockVars, convVars, actionVars, budget, eager_clear,
                   voice_client, loopCancel, tasks, sound_files, available_sounds, enabled,
                   connectCalls, discCalls, emptyJoin, nJoins, nSMJoins, nLeaves>>

\* CancelledError is delivered at the current sleep: the first sleep is outside the
\* try and the back-off sleep is inside an except block (the task just ends), the
\* interval sleep is inside the try (break, then cleanup)
LoopCancelled(c) ==
    /\ loop[c] \in {"init", "interval", "backoff"}
    /\ loopCancel[c]
    /\ loop' = [loop EXCEPT ![c] = "done"]
    /\ active_voice_clients' =
          IF loop[c] = "interval" THEN RegistryAfterLoop(c) ELSE active_voice_clients
    /\ UNCHANGED <<clockVars, convVars, actionVars, budget, eager_clear, conn,
                   voice_client, loopCancel, tasks, sound_files, available_sounds, enabled,
                   connectCalls, discCalls, played, emptyJoin, nJoins, nSMJoins, nLeaves>>

\* ------------------------------------ playback chain of handle_voice_join
\* SoundManager's player ends: its after callback (_handle_sound_complete) only logs
PlayFinish(c) ==
    /\ conn[c].playing /\ conn[c].by = "sm"
    /\ conn' = [conn EXCEPT ![c].playing = FALSE]
    /\ UNCHANGED <<clockVars, convVars, actionVars, budget, eager_clear, voice_client,
                   active_voice_clients, loop, loopCancel, tasks, sound_files,
                   available_sounds, enabled, connectCalls, discCalls, played, emptyJoin,
                   nJoins, nSMJoins, nLeaves>>

\* continue_playing, created on the second draw's miss: its first statement,
\* "await asyncio.sleep(interval)", reads after_playing's local interval, which is
\* assigned only on the play-another branch. The task dies of a NameError before it
\* suspends: B, the bag of suspended coroutines, is what it was.
ContinuePlaying(B) == B

\* a variant of AfterPlaying whose callback runs while the client still counts as
\* playing
AfterPlayingEarly(c, another, leave) ==
    /\ conn[c].playing /\ conn[c].by = "h"
    /\ LET g == conn[c].g
       IN IF ~IsConnected(c)
          THEN UNCHANGED <<conn, tasks, discCalls>>
          ELSE IF another
          THEN /\ tasks' = Spawn(tasks, Task("next", "sleep", g, c, "", 0))
               /\ UNCHANGED <<conn, discCalls>>
          ELSE IF leave
          THEN /\ conn' = [conn EXCEPT ![c].st = IF @ = "open" THEN "closing" ELSE @]
               /\ discCalls' = [discCalls EXCEPT ![c]["sched"] = @ + 1]
               /\ tasks' = Spawn(tasks, Task("after", "disc", g, c, "", 0))
          ELSE /\ tasks' = ContinuePlaying(tasks)
               /\ UNCHANGED <<conn, discCalls>>
    /\ UNCHANGED <<clockVars, convVars, actionVars, budget, eager_clear, voice_client,
                   active_voice_clients, loop, loopCancel, sound_files, available_sounds,
                   enabled, connectCalls, played, emptyJoin, nJoins, nSMJoins, nLeaves>>

\* the player of a handle_voice_join client ends (or was stopped): its after callback
\* runs after_playing, with the two draws (random_sound_chance, disconnect_chance).
\* Nothing else reads is_playing() of such a client in between.
AfterPlaying(c, another, leave) ==
    /\ conn[c].playing /\ conn[c].by = "h"
    /\ LET g == conn[c].g
           stopped == [conn EXCEPT ![c].playing = FALSE]
       IN IF ~IsConnected(c)
          THEN /\ conn' = stopped
               /\ UNCHANGED <<tasks, discCalls>>
          ELSE IF another
          THEN /\ conn' = stopped
               /\ tasks' = Spawn(tasks, Task("next", "sleep", g, c, "", 0))
               /\ UNCHANGED discCalls
          ELSE IF leave
          THEN /\ conn' = [stopped EXCEPT ![c].st = IF @ = "open" THEN "closing" ELSE @]
               /\ discCalls' = [discCalls EXCEPT ![c]["sched"] = @ + 1]
               /\ tasks' = Spawn(tasks, Task("after", "disc", g, c, "", 0))
          ELSE /\ conn' = stopped
               /\ tasks' = ContinuePlaying(tasks)
               /\ UNCHANGED discCalls
    /\ UNCHANGED <<clockVars, convVars, actionVars, budget, eager_clear, voice_client,
                   active_voice_clients, loop, loopCancel, sound_files, available_sounds,
                   enabled, connectCalls, played, emptyJoin, nJoins, nSMJoins, nLeaves>>

\* play_next_sound: the interval sleep is over
PlayNextSound(t) ==
    /\ t \in Pending /\ t.type = "next" /\ t.pc = "sleep"
    /\ IF ~IsConnected(t.c)
       THEN /\ tasks' = Drop(tasks, t)
            /\ UNCHANGED <<conn, discCalls, played>>
       ELSE IF sound_files
       THEN /\ tasks' = Drop(tasks, t)
            /\ IF CanPlay(t.c)
               THEN /\ conn' = [conn EXCEPT ![t.c].playing = TRUE]
                    /\ played' = [played EXCEPT ![t.c] = TRUE]
               ELSE UNCHANGED <<conn, played>>
            /\ UNCHANGED discCalls
       ELSE /\ DiscBegin(t.c, "sched")
            /\ tasks' = Spawn(Drop(tasks, t), [t EXCEPT !.pc = "disc"])
            /\ UNCHANGED played
    /\ UNCHANGED <<clockVars, convVars, actionVars, budget, eager_clear, voice_client,
                   active_voice_clients, loop, loopCancel, sound_files, available_sounds,
                   enabled, connectCalls, emptyJoin, nJoins, nSMJoins, nLeaves>>

\* the scheduler's disconnect returns; it sends its farewell and ends
SchedDiscDone(t) ==
    /\ t \in Pending /\ t.type \in {"after", "next"} /\ t.pc = "disc"
    /\ conn' = ConnAfterDisc(t.c)
    /\ voice_client' = ClientAfterDisc(t.c)
    /\ tasks' = Drop(tasks, t)
    /\ UNCHANGED <<clockVars, convVars, actionVars, budget, eager_clear,
                   active_voice_clients, loop, loopCancel, sound_files, available_sounds,
                   enabled, connectCalls, discCalls, played, emptyJoin, nJoins, nSMJoins,
                   nLeaves>>

\* the last sound file is removed from the sounds directory
SoundsChange ==
    /\ sound_files
    /\ sound_files' = FALSE
    /\ UNCHANGED <<clockVars, convVars, actionVars, budget, eager_clear, conn,
                   voice_client, active_voice_clients, loop, loopCancel, tasks,
                   available_sounds, enabled, connectCalls, discCalls, played, emptyJoin,
                   nJoins, nSMJoins, nLeaves>>

\* the voice channels a request may name; the channels are interchangeable, so the
\* first connection of a guild is taken to be to channel "a"
JoinChannels(g) ==
    IF \A c \in ConnIds : conn[c].g # g THEN {"a"} ELSE Channels

\* the duration arguments a request may carry; no step reads a timer's minutes, so
\* the first vcjoin of a run is taken to carry none
JoinArgs == IF nJoins = 0 THEN {<<>>} ELSE DurationArgs

NextVoice ==
    \/ \E g \in Guilds : \E ch \in JoinChannels(g), arg \in JoinArgs : HandleVoiceJoin(g, ch, arg)
    \/ \E t \in Pending, sent \in BOOLEAN : HvjAck(t, sent)
    \/ \E t \in Pending : HvjSwitchDone(t)
    \/ \E t \in Pending : HvjGraceDone(t)
    \/ \E t \in Pending, ok \in BOOLEAN : HvjConnected(t, ok)
    \/ \E t \in Pending, sent \in BOOLEAN : HvjJoined(t, sent)
    \/ \E g \in Guilds : LeaveVoiceChannel(g)
    \/ \E t \in Pending : LeaveTaskAwaited(t)
    \/ \E t \in Pending : LeaveDiscDone(t)
    \/ \E t \in Pending : TimerMaxFire(t)
    \/ \E t \in Pending : TimerDiscDone(t)
    \/ \E t \in Pending : TimerAutoFire(t)
    \/ \E g \in Guilds : \E ch \in JoinChannels(g) : JoinVoiceChannel(g, ch)
    \/ \E t \in Pending, ok \in BOOLEAN : JoinConnected(t, ok)
    \/ \E c \in ConnIds : LoopWake(c)
    \/ \E c \in ConnIds : LoopCancelled(c)
    \/ \E c \in ConnIds : PlayFinish(c)
    \/ \E c \in ConnIds, another \in BOOLEAN, leave \in BOOLEAN : AfterPlaying(c, another, leave)
    \/ \E t \in Pending : PlayNextSound(t)
    \/ \E t \in Pending : SchedDiscDone(t)
    \/ SoundsChange

NextSound ==
    \/ \E g \in Guilds : LeaveVoiceChannel(g)
    \/ \E t \in Pending : LeaveTaskAwaited(t)
    \/ \E t \in Pending : LeaveDiscDone(t)
    \/ \E g \in Guilds : \E ch \in JoinChannels(g) : JoinVoiceChannel(g, ch)
    \/ \E t \in Pending, ok \in BOOLEAN : JoinConnected(t, ok)
    \/ \E c \in ConnIds : LoopWake(c)
    \/ \E c \in ConnIds : LoopCancelled(c)
    \/ \E c \in ConnIds : PlayFinish(c)
    \/ SoundsChange

\* the SoundManager with an interval configuration that may make the loop back off
NextLoop ==
    \/ \E g \in Guilds : LeaveVoiceChannel(g)
    \/ \E t \in Pending : LeaveTaskAwaited(t)
    \/ \E t \in Pending : LeaveDiscDone(t)
    \/ \E g \in Guilds : \E ch \in JoinChannels(g) : JoinVoiceChannel(g, ch)
    \/ \E t \in Pending, ok \in BOOLEAN : JoinConnected(t, ok)
    \/ \E c \in ConnIds : LoopWake(c)
    \/ \E c \in ConnIds : LoopBackOff(c)
    \/ \E c \in ConnIds : LoopCancelled(c)
    \/ \E c \in ConnIds : PlayFinish(c)

\* ------------------------------------------------------------------ the clock
\* timedelta.seconds of a non-negative difference of d seconds: the days are dropped
Seconds(d) == d % (24 * 3600)

ClockStart == now = 0 /\ nTicks = 0

\* d seconds pass
Tick(d) ==
    /\ nTicks < MaxTicks
    /\ nTicks' = nTicks + 1
    /\ now' = now + d
    /\ UNCHANGED <<convVars, actionVars, voiceVars>>

\* ------------------------------------------- ScribbleBot: conversation engine
NoConversation == [exists |-> FALSE, active |-> FALSE, last_activity |-> 0]
NoMsg == [ch |-> "", bot |-> FALSE, match |-> FALSE, stage |-> "none",
          respond |-> FALSE, processed |-> FALSE]
NoCheck == [user |-> "", at |-> 0, prior |-> -1, admitted |-> FALSE]

ConvStartIn(mode, listed, channels) ==
    /\ wake_word_mode_enabled = mode
    /\ active_conversations = [ch \in channels \cup {DMChannel} |-> NoConversation]
    /\ last_response = [u \in Users |-> -1]
    /\ blacklist = listed
    /\ seenWake = [ch \in channels \cup {DMChannel} |-> FALSE]
    /\ prevMsg = [ch \in channels |-> -1]
    /\ spaced = [ch \in channels |-> FALSE]
    /\ msg = NoMsg
    /\ check = NoCheck
    /\ nMsgs = 0 /\ nEdits = 0

ConvStart(mode, listed) == ConvStartIn(mode, listed, OneTextChannel)

\* a variant of the DM test that the blacklist overrides
DirectUnlessListed(ch) == ch = DMChannel /\ ch \notin blacklist

\* isinstance(message.channel, discord.DMChannel) or message.guild is None
IsDirect(ch) == ch = DMChannel

\* is_blacklisted_channel: always False for a DMChannel
IsBlacklistedChannel(ch) == ch # DMChannel /\ ch \in blacklist

IsRandomResponseChannel(ch) == ~IsBlacklistedChannel(ch)

\* fuzz.ratio(clean_word, bot_name) / 100.0 >= threshold / 100.0, for some word
NameMatch(content) == content.score >= NameClosenessThreshold

\* a variant of should_respond whose name threshold is one point too low
RespondsToNearMiss(content) ==
    \/ wake_word_mode_enabled /\ content.wake
    \/ content.score >= NameClosenessThreshold - 1

\* should_respond(content)
ShouldRespond(content) ==
    \/ wake_word_mode_enabled /\ content.wake
    \/ NameMatch(content)

\* random.randint(1, 10) <= random_chance / 10
RandomHit(roll) == roll * 10 <= RandomResponseChance

\* a variant of the timeout test that already fires at the limit
TimedOutAtLimit(conv) == now - conv.last_activity >= ConversationTimeoutMinutes * 60

\* now - conversation['last_activity'] > timedelta(minutes=self.conversation_timeout)
TimedOut(conv) == now - conv.last_activity > ConversationTimeoutMinutes * 60

\* a variant of check_conversation_timeout that sweeps the whole table
CheckEveryConversation(convs, ch) ==
    [other \in DOMAIN convs |->
        IF wake_word_mode_enabled /\ convs[other].exists /\ convs[other].active
              /\ TimedOut(convs[other])
        THEN [convs[other] EXCEPT !.active = FALSE]
        ELSE convs[other]]

\* check_conversation_timeout(channel_id) applied to the table convs
CheckConversationTimeout(convs, ch) ==
    IF wake_word_mode_enabled /\ convs[ch].exists /\ convs[ch].active /\ TimedOut(convs[ch])
    THEN [convs EXCEPT ![ch].active = FALSE]
    ELSE convs

IsConversationActive(convs, ch) ==
    wake_word_mode_enabled /\ convs[ch].exists /\ convs[ch].active

ActivateConversation(convs, ch) ==
    IF ~wake_word_mode_enabled
    THEN convs
    ELSE [convs EXCEPT ![ch] = [exists |-> TRUE, active |-> TRUE, last_activity |-> now]]

\* a variant of update_conversation_activity that leaves last_activity as it is
UpdateKeepsTime(convs, ch) ==
    IF ~wake_word_mode_enabled \/ convs[ch].exists THEN convs ELSE ActivateConversation(convs, ch)

UpdateConversationActivity(convs, ch) ==
    IF ~wake_word_mode_enabled
    THEN convs
    ELSE IF convs[ch].exists
         THEN [convs EXCEPT ![ch].last_activity = now]
         ELSE ActivateConversation(convs, ch)

\* check_rate_limit(user_id) returns True
CooledDown(u) ==
    ~(last_response[u] # -1 /\ Seconds(now - last_response[u]) < CommandCooldownSeconds)

\* the gap between this message and the previous one in the channel is below the timeout
CloseToPrevious(ch) ==
    prevMsg[ch] # -1 /\ now - prevMsg[ch] < ConversationTimeoutMinutes * 60

\* the record f of the text channels, with v noted for ch if ch is one
Noted(f, ch, v) == IF ch \in DOMAIN f THEN [f EXCEPT ![ch] = v] ELSE f

\* spaced after a message in ch that did not activate the channel
StillSpaced(ch) == Noted(spaced, ch, ch \in TextChannels /\ spaced[ch] /\ CloseToPrevious(ch))

\* on_message up to the call of process_message: no await suspends in between
\* (check_conversation_timeout has none), so it is one step
OnMessage(ch, u, bot, content, roll) ==
    /\ nMsgs < MaxMsgs
    /\ nMsgs' = nMsgs + 1
    /\ prevMsg' = Noted(prevMsg, ch, now)
    /\ seenWake' = [seenWake EXCEPT ![ch] = @ \/ (~bot /\ (content.wake \/ NameMatch(content)))]
    /\ IF bot
       THEN /\ msg' = [ch |-> ch, bot |-> TRUE, match |-> FALSE, stage |-> "ignored",
                       respond |-> FALSE, processed |-> FALSE]
            /\ spaced' = StillSpaced(ch)
            /\ UNCHANGED <<active_conversations, last_response>>
       ELSE LET checked == CheckConversationTimeout(active_conversations, ch)
                dm == IsDirect(ch)
            IN IF ~dm /\ IsBlacklistedChannel(ch)
               THEN /\ active_conversations' = checked
                    /\ msg' = [ch |-> ch, bot |-> FALSE, match |-> FALSE,
                               stage |-> "blacklisted", respond |-> FALSE,
                               processed |-> FALSE]
                    /\ spaced' = StillSpaced(ch)
                    /\ UNCHANGED last_response
               ELSE LET wasActive == IsConversationActive(checked, ch)
                        match == ShouldRespond(content)
                        explicit == IF dm THEN TRUE
                                    ELSE IF wake_word_mode_enabled /\ wasActive THEN TRUE
                                    ELSE match
                        convs == IF dm \/ ~wake_word_mode_enabled THEN checked
                                 ELSE IF wasActive
                                      THEN UpdateConversationActivity(checked, ch)
                                      ELSE IF match THEN ActivateConversation(checked, ch)
                                           ELSE checked
                        random == ~explicit /\ IsRandomResponseChannel(ch) /\ RandomHit(roll)
                        respond == explicit \/ random
                        admit == respond /\ CooledDown(u)
                    IN /\ active_conversations' = convs
                       /\ last_response' =
                             IF admit THEN [last_response EXCEPT ![u] = now] ELSE last_response
                       /\ msg' = [ch |-> ch, bot |-> FALSE, match |-> match,
                                  stage |-> IF explicit THEN "addressed"
                                            ELSE IF random THEN "random" ELSE "passed",
                                  respond |-> respond, processed |-> admit]
                       /\ spaced' = IF convs[ch].active /\ ~wasActive
                                    THEN Noted(spaced, ch, TRUE)
                                    ELSE StillSpaced(ch)
    /\ UNCHANGED <<wake_word_mode_enabled, blacklist, nEdits, check, clockVars, actionVars,
                   voiceVars>>

\* the blacklist file (or the channel's name) is edited: load_blacklist reads the file
\* at every call
BlacklistEdit(ch) ==
    /\ nEdits < MaxEdits
    /\ nEdits' = nEdits + 1
    /\ blacklist' = IF ch \in blacklist THEN blacklist \ {ch} ELSE blacklist \cup {ch}
    /\ UNCHANGED <<wake_word_mode_enabled, active_conversations, last_response, seenWake,
                   prevMsg, spaced, msg, nMsgs, check, clockVars, actionVars, voiceVars>>

\* the texts and rolls that tell two messages of an author apart: on_message reads
\* neither of a bot's message
Texts(bot) == IF bot THEN {CHOOSE content \in Contents : content.wake} ELSE Contents
RollsFor(bot) == IF bot THEN {CHOOSE roll \in Rolls : TRUE} ELSE Rolls

NextConv ==
    \/ \E ch \in MsgChannels, u \in Users, bot \in BOOLEAN :
          \E content \in Texts(bot), roll \in RollsFor(bot) : OnMessage(ch, u, bot, content, roll)
    \/ \E ch \in TextChannels : BlacklistEdit(ch)
    \/ \E d \in ConvGaps : Tick(d)

\* on_message with a blacklist file that may also name the DM channel
NextDirect ==
    \/ \E ch \in MsgChannels, u \in Users, bot \in BOOLEAN :
          \E content \in Texts(bot), roll \in RollsFor(bot) : OnMessage(ch, u, bot, content, roll)
    \/ \E ch \in MsgChannels : BlacklistEdit(ch)
    \/ \E d \in {CommandCooldownSeconds, ConversationTimeoutMinutes * 60 + 1} : Tick(d)

\* --------------------------------------- ScribbleBot: the per-user cooldown
\* a variant of RecordResponse that records every call, rejected ones included
RecordEveryCall(u, admit) == [last_response EXCEPT ![u] = now]

\* self.last_response[user_id] = now, reached only by a call that is not rejected
RecordResponse(u, admit) ==
    IF admit THEN [last_response EXCEPT ![u] = now] ELSE last_response

\* check_rate_limit(user_id), called on its own
CheckRateLimit(u) ==
    /\ LET admit == CooledDown(u)
       IN /\ last_response' = RecordResponse(u, admit)
          /\ check' = [user |-> u, at |-> now, prior |-> last_response[u], admitted |-> admit]
    /\ UNCHANGED <<wake_word_mode_enabled, active_conversations, blacklist, seenWake, prevMsg,
                   spaced, msg, nMsgs, nEdits, clockVars, actionVars, voiceVars>>

NextRate ==
    \/ \E u \in RateUsers : CheckRateLimit(u)
    \/ \E d \in RateGaps : Tick(d)

\* ------------------------------------------ ActionHandler: the action dispatcher
NoCall == [type |-> "", stage |-> "none", admitted |-> FALSE, ran |-> FALSE]

AllEnabled == [enable_timeouts |-> TRUE, enable_bans |-> TRUE, enable_nicknames |-> TRUE]
SafetyConfigs == {AllEnabled, [AllEnabled EXCEPT !.enable_timeouts = FALSE]}

\* ------------------------------------------ ActionHandler.parse_action_args
\* shlex.whitespace, the characters str.strip() and str.split() take for blank,
\* shlex.quotes, shlex.escape and shlex.escapedquotes
ShlexWhitespace == {" ", "\t", "\r", "\n"}
StrWhitespace == {" ", "\t", "\r", "\n", "\f"}
Quotes == {"'", "\""}
Escape == "\\"
EscapedQuotes == {"\""}

\* str.lower(), on the letters of Chars
LowerChar(c) == IF c = "B" THEN "b" ELSE c
Lower(word) == [i \in DOMAIN word |-> LowerChar(word[i])]

\* action_string.strip()
RECURSIVE StripLeft(_)
StripLeft(s) == IF s # <<>> /\ Head(s) \in StrWhitespace THEN StripLeft(Tail(s)) ELSE s
RECURSIVE StripRight(_)
StripRight(s) ==
    IF s # <<>> /\ s[Len(s)] \in StrWhitespace THEN StripRight(SubSeq(s, 1, Len(s) - 1)) ELSE s
Strip(s) == StripRight(StripLeft(s))

\* str.split(): the maximal runs of non-blank characters; word is the run being read
RECURSIVE SplitFrom(_, _, _)
SplitFrom(s, word, parts) ==
    IF s = <<>> THEN (IF word = <<>> THEN parts ELSE Append(parts, word))
    ELSE IF Head(s) \in StrWhitespace
    THEN SplitFrom(Tail(s), <<>>, IF word = <<>> THEN parts ELSE Append(parts, word))
    ELSE SplitFrom(Tail(s), Append(word, Head(s)), parts)
NaiveSplit(s) == SplitFrom(s, <<>>, <<>>)

\* shlex.shlex(s, posix=True) with whitespace_split and no commenters, as shlex.split
\* sets it up: the state of read_token between two characters. mode is ' ' ("space"),
\* 'a' ("word"), the open quote, or "escape"; back is escapedstate.
ShlexStart == [mode |-> "space", back |-> "word", token |-> <<>>, quoted |-> FALSE,
               parts |-> <<>>]

\* read_token hands the token out: an empty one only if it was quoted
Emit(st) ==
    IF st.token # <<>> \/ st.quoted
    THEN [st EXCEPT !.parts = Append(@, st.token), !.token = <<>>, !.quoted = FALSE,
                    !.mode = "space"]
    ELSE [st EXCEPT !.mode = "space"]

\* read_token reads the character c
ShlexStep(st, c) ==
    IF st.mode = "space"
    THEN IF c \in ShlexWhitespace THEN st
         ELSE IF c = Escape THEN [st EXCEPT !.mode = "escape", !.back = "word"]
         ELSE IF c \in Quotes THEN [st EXCEPT !.mode = c, !.quoted = TRUE]
         ELSE [st EXCEPT !.mode = "word", !.token = <<c>>]
    ELSE IF st.mode \in Quotes
    THEN IF c = st.mode THEN [st EXCEPT !.mode = "word"]
         ELSE IF c = Escape /\ st.mode \in EscapedQuotes
         THEN [st EXCEPT !.mode = "escape", !.back = st.mode]
         ELSE [st EXCEPT !.token = Append(@, c)]
    ELSE IF st.mode = "escape"
    THEN LET kept == IF st.back \in Quotes /\ c # Escape /\ c # st.back
                     THEN <<Escape, c>> ELSE <<c>>
         IN [st EXCEPT !.token = @ \o kept, !.mode = st.back]
    ELSE IF c \in ShlexWhitespace THEN Emit(st)
         ELSE IF c \in Quotes THEN [st EXCEPT !.mode = c, !.quoted = TRUE]
         ELSE IF c = Escape THEN [st EXCEPT !.mode = "escape", !.back = "word"]
         ELSE [st EXCEPT !.token = Append(@, c)]

RECURSIVE ShlexRun(_, _)
ShlexRun(st, s) == IF s = <<>> THEN st ELSE ShlexRun(ShlexStep(st, Head(s)), Tail(s))

\* shlex.split(s): the tokens, or the ValueError read_token raises at the end of input
ShlexSplit(s) ==
    LET st == ShlexRun(ShlexStart, s)
    IN IF st.mode \in Quotes THEN [error |-> "No closing quotation", parts |-> <<>>]
       ELSE IF st.mode = "escape" THEN [error |-> "No escaped character", parts |-> <<>>]
       ELSE [error |-> "", parts |-> Emit(st).parts]

NotParsed == [done |-> FALSE, kind |-> <<>>, args |-> <<>>, fallback |-> FALSE,
              raised |-> FALSE, proceeds |-> FALSE]

\* return "", []  /  return parts[0].lower(), parts[1:]
Parts(parts, fallback) ==
    IF parts = <<>>
    THEN [done |-> TRUE, kind |-> <<>>, args |-> <<>>, fallback |-> fallback,
          raised |-> FALSE, proceeds |-> FALSE]
    ELSE [done |-> TRUE, kind |-> Lower(Head(parts)), args |-> Tail(parts),
          fallback |-> fallback, raised |-> FALSE, proceeds |-> FALSE]

\* a variant of parse_action_args without the except ValueError branch
ParseWithoutFallback(s) ==
    LET r == ShlexSplit(Strip(s))
    IN IF r.error = "" THEN Parts(r.parts, FALSE) ELSE [NotParsed EXCEPT !.done = TRUE, !.raised = TRUE]

\* a variant of parse_action_args that keeps the case of the first token
ParseKeepingCase(s) ==
    LET r == ShlexSplit(Strip(s))
        parts == IF r.error = "" THEN r.parts ELSE NaiveSplit(Strip(s))
    IN [Parts(parts, r.error # "") EXCEPT !.kind = IF parts = <<>> THEN <<>> ELSE Head(parts)]

\* parse_action_args(action_string)
ParseActionArgs(s) ==
    LET r == ShlexSplit(Strip(s))
    IN IF r.error = "" THEN Parts(r.parts, FALSE) ELSE Parts(NaiveSplit(Strip(s)), TRUE)

\* execute_action parses the directive it was handed, and returns at once if the
\* kind is empty
Parse ==
    /\ ~parsed.done
    /\ LET result == ParseActionArgs(directive)
       IN parsed' = [result EXCEPT !.proceeds = ~result.raised /\ result.kind # <<>>]
    /\ UNCHANGED <<max_actions, safety, action_history, admitted, call, nCalls,
                   protected_user_ids, admin_user_ids, max_timeout, job, nCommands,
                   directive, findVars, clockVars, convVars, voiceVars>>

NextParse == Parse

\* ------------------------------------------------ ActionHandler.find_member
\* the characters a username is made of: a letter in either case, a character of the
\* mention markup, a decimal digit, and a digit str.isdigit() accepts and int() does not
NameChars == {"b", "B", "!", "1", "²"}
Usernames == UNION {[1..n -> NameChars] : n \in 0..MaxLen}

\* the members of the guild: identifier, name and display name
Adam == [id |-> 1, name |-> <<"a", "b">>, display_name |-> <<"a", "B">>]
Beth == [id |-> 11, name |-> <<"b">>, display_name |-> <<"B", "!">>]
Carl == [id |-> 2, name |-> <<"1">>, display_name |-> <<"1">>]
GuildMembers == {Adam, Beth, Carl}
Nobody == [id |-> 0, name |-> <<>>, display_name |-> <<>>]

\* guild.members: up to two members, in either order
MemberLists ==
    {<<>>} \cup {<<m>> : m \in GuildMembers}
           \cup {pair \in GuildMembers \X GuildMembers : pair[1] # pair[2]}

\* str.strip('<@!>'), on the characters of NameChars
MentionMarkup == {"<", "@", "!", ">"}
RECURSIVE StripMarkupLeft(_)
StripMarkupLeft(s) ==
    IF s # <<>> /\ Head(s) \in MentionMarkup THEN StripMarkupLeft(Tail(s)) ELSE s
RECURSIVE StripMarkupRight(_)
StripMarkupRight(s) ==
    IF s # <<>> /\ s[Len(s)] \in MentionMarkup
    THEN StripMarkupRight(SubSeq(s, 1, Len(s) - 1)) ELSE s
StripMarkup(s) == StripMarkupRight(StripMarkupLeft(s))

\* str.isdigit(): not empty, and every character has the Unicode property Digit
DigitChars == {"1", "²"}
IsDigit(s) == s # <<>> /\ \A i \in DOMAIN s : s[i] \in DigitChars

\* int(s) of a string str.isdigit() accepts: ValueError unless every character is a
\* decimal digit
DecimalChars == {"1"}
IntRaises(s) == \E i \in DOMAIN s : s[i] \notin DecimalChars
RECURSIVE IntOf(_)
IntOf(s) == IF s = <<>> THEN 0 ELSE 10 * IntOf(SubSeq(s, 1, Len(s) - 1)) + 1

\* sub in s
Contains(s, sub) ==
    \E i \in 1..(Len(s) - Len(sub) + 1) : SubSeq(s, i, i + Len(sub) - 1) = sub

\* the first member of the list that satisfies Test, or Nobody
First(list, Test(_)) ==
    IF \E i \in DOMAIN list : Test(list[i])
    THEN list[CHOOSE i \in DOMAIN list : Test(list[i]) /\ \A j \in 1..(i - 1) : ~Test(list[j])]
    ELSE Nobody

\* guild.get_member(id)
GetMember(list, id) == First(list, LAMBDA m : m.id = id)

NotSought == [done |-> FALSE, raised |-> FALSE, member |-> Nobody]
Returned(m) == [done |-> TRUE, raised |-> FALSE, member |-> m]

FindRest == guild_members = <<>> /\ username = <<>> /\ found = NotSought

\* find_member(guild, username)
FindMember(list, name) ==
    LET wanted == StripMarkup(Lower(name))
        byId == IF IsDigit(wanted) /\ ~IntRaises(wanted)
                THEN GetMember(list, IntOf(wanted)) ELSE Nobody
        exact == First(list, LAMBDA m : Lower(m.name) = wanted \/ Lower(m.display_name) = wanted)
        partial == First(list, LAMBDA m : \/ Contains(Lower(m.name), wanted)
                                           \/ Contains(Lower(m.display_name), wanted))
    IN IF IsDigit(wanted) /\ IntRaises(wanted)
       THEN [done |-> TRUE, raised |-> TRUE, member |-> Nobody]
       ELSE IF byId # Nobody THEN Returned(byId)
       ELSE IF exact # Nobody THEN Returned(exact)
       ELSE Returned(partial)

\* a handler calls find_member
Find ==
    /\ ~found.done
    /\ found' = FindMember(guild_members, username)
    /\ UNCHANGED <<max_actions, safety, action_history, admitted, call, nCalls,
                   protected_user_ids, admin_user_ids, max_timeout, job, nCommands,
                   directive, parsed, guild_members, username, clockVars, convVars,
                   voiceVars>>

NextFind == Find

\* no command is in its handler
NoJob == [type |-> "", pc |-> "none", member |-> NoMember, d |-> 0, minutes |-> 0,
          sending |-> "", calls |-> <<>>, attempts |-> <<>>, reports |-> <<>>,
          failed |-> FALSE, raised |-> FALSE]

HandlerStart(lists, limit) ==
    /\ protected_user_ids = lists[1]
    /\ admin_user_ids = lists[2]
    /\ max_timeout = limit
    /\ job = NoJob
    /\ nCommands = 0
    /\ directive = <<>>
    /\ parsed = NotParsed
    /\ FindRest

ActionStart(capacity, flags) ==
    /\ max_actions = capacity
    /\ safety = flags
    /\ action_history = <<>>
    /\ admitted = <<>>
    /\ call = NoCall
    /\ nCalls = 0
    /\ HandlerStart(<<{}, {}>>, DefaultMaxTimeout)

\* is_action_enabled(action_type)
IsActionEnabled(type) ==
    CASE type = "timeout" -> safety.enable_timeouts
      [] type = "ban" -> safety.enable_bans
      [] type = "nickname" -> safety.enable_nicknames
      [] type \in {"dm", "vcjoin", "image"} -> TRUE
      [] OTHER -> FALSE

\* (now - action_time).seconds < 3600
InWindow(t) == Seconds(now - t) < ActionWindowSeconds

\* "Remove old actions": the list comprehension over action_history
Recent(history) == SelectSeq(history, InWindow)

\* a variant of the capacity test that lets one action too many through
OverCapacity(history) == Len(history) > max_actions

\* len(self.action_history) >= max_actions
AtCapacity(history) == Len(history) >= max_actions

\* the if/elif chain of execute_action: the types that have a handler; any other
\* type reaches the else branch ("I don't know how to do ...")
HandledTypes == {"timeout", "ban", "nickname", "dm", "vcjoin", "image"}
Dispatch(type) == IF type \in HandledTypes THEN "dispatched" ELSE "unknown"

\* a variant of execute_action that asks check_action_rate_limit before
\* is_action_enabled
ExecuteActionQuotaFirst(type) ==
    /\ nCalls < MaxCalls
    /\ nCalls' = nCalls + 1
    /\ IF type = ""
       THEN /\ call' = [type |-> type, stage |-> "unparsed", admitted |-> FALSE, ran |-> FALSE]
            /\ UNCHANGED <<action_history, admitted>>
       ELSE LET kept == Recent(action_history)
            IN IF AtCapacity(kept)
               THEN /\ action_history' = kept
                    /\ call' = [type |-> type, stage |-> "rate_limited",
                                admitted |-> FALSE, ran |-> FALSE]
                    /\ UNCHANGED admitted
               ELSE /\ action_history' = Append(kept, now)
                    /\ admitted' = Append(admitted, now)
                    /\ call' = IF IsActionEnabled(type)
                               THEN [type |-> type, stage |-> Dispatch(type),
                                     admitted |-> TRUE, ran |-> TRUE]
                               ELSE [type |-> type, stage |-> "disabled",
                                     admitted |-> TRUE, ran |-> FALSE]
    /\ UNCHANGED <<max_actions, safety, protected_user_ids, admin_user_ids, max_timeout, job,
                   nCommands, directive, findVars, parsed, clockVars, convVars, voiceVars>>

\* execute_action up to the handler it dispatches to; "" is a directive that
\* parse_action_args finds no action type in
ExecuteAction(type) ==
    /\ nCalls < MaxCalls
    /\ nCalls' = nCalls + 1
    /\ IF type = ""
       THEN /\ call' = [type |-> type, stage |-> "unparsed", admitted |-> FALSE, ran |-> FALSE]
            /\ UNCHANGED <<action_history, admitted>>
       ELSE IF ~IsActionEnabled(type)
       THEN /\ call' = [type |-> type, stage |-> "disabled", admitted |-> FALSE, ran |-> FALSE]
            /\ UNCHANGED <<action_history, admitted>>
       ELSE LET kept == Recent(action_history)
            IN IF AtCapacity(kept)
               THEN /\ action_history' = kept
                    /\ call' = [type |-> type, stage |-> "rate_limited",
                                admitted |-> FALSE, ran |-> FALSE]
                    /\ UNCHANGED admitted
               ELSE /\ action_history' = Append(kept, now)
                    /\ admitted' = Append(admitted, now)
                    /\ call' = [type |-> type, stage |-> Dispatch(type),
                                admitted |-> TRUE, ran |-> TRUE]
    /\ UNCHANGED <<max_actions, safety, protected_user_ids, admin_user_ids, max_timeout, job,
                   nCommands, directive, findVars, parsed, clockVars, convVars, voiceVars>>

NextAction ==
    \/ \E type \in ActionTypes \cup {""} : ExecuteAction(type)
    \/ \E d \in ActionGaps : Tick(d)

\* ------------------- concurrently running on_message handlers and dispatches
\* seconds between two events: inside the cooldown, the cooldown, and one short of
\* the hour (two of them make up the second of a cooldown, and the hour)
AdmitGaps == {1, CommandCooldownSeconds, ActionWindowSeconds - 1}

\* the action the AI response of a handler names: one with a handler, one without
ResponseActions == {"dm", "dance"}

\* an on_message coroutine of user u that check_rate_limit admitted at time `at`,
\* suspended at pc
Handler(u, pc, at) == Task("on_message", pc, u, 0, "", at)
Handlers == {t \in Pending : t.type = "on_message"}

\* a variant of OnMessageAdmitted that records the admission only after
\* process_message has returned
OnMessageRecordedLate(u) ==
    /\ nMsgs < MaxMsgs
    /\ nMsgs' = nMsgs + 1
    /\ LET admit == CooledDown(u)
       IN tasks' = IF admit THEN Spawn(tasks, Handler(u, "process_message", now)) ELSE tasks
    /\ UNCHANGED <<wake_word_mode_enabled, active_conversations, last_response, blacklist,
                   seenWake, prevMsg, spaced, msg, nEdits, check, clockVars, actionVars, budget,
                   eager_clear, conn, voice_client, active_voice_clients, loop, loopCancel,
                   sound_files, available_sounds, enabled, connectCalls, discCalls, played,
                   emptyJoin, nJoins, nSMJoins, nLeaves>>

\* on_message for a message of user u it has decided to answer: check_rate_limit,
\* then "await self.process_message(message)", where the coroutine is suspended.
\* No await lies between the cooldown test and the assignment to last_response.
OnMessageAdmitted(u) ==
    /\ nMsgs < MaxMsgs
    /\ nMsgs' = nMsgs + 1
    /\ LET admit == CooledDown(u)
       IN /\ last_response' = RecordResponse(u, admit)
          /\ tasks' = IF admit THEN Spawn(tasks, Handler(u, "process_message", now)) ELSE tasks
    /\ UNCHANGED <<wake_word_mode_enabled, active_conversations, blacklist, seenWake, prevMsg,
                   spaced, msg, nEdits, check, clockVars, actionVars, budget, eager_clear, conn,
                   voice_client, active_voice_clients, loop, loopCancel, sound_files,
                   available_sounds, enabled, connectCalls, discCalls, played, emptyJoin,
                   nJoins, nSMJoins, nLeaves>>

\* process_message of handler t has sent the reply and calls execute_action with an
\* action of the given type: is_action_enabled, check_action_rate_limit, then the
\* first await - the send of the refusal, or the handler of the action
ProcessMessage(t, type) ==
    /\ t \in Handlers /\ t.pc = "process_message"
    /\ IF ~IsActionEnabled(type)
       THEN /\ call' = [type |-> type, stage |-> "disabled", admitted |-> FALSE, ran |-> FALSE]
            /\ tasks' = Spawn(Drop(tasks, t), [t EXCEPT !.pc = "refusal"])
            /\ UNCHANGED <<action_history, admitted>>
       ELSE LET kept == Recent(action_history)
            IN IF AtCapacity(kept)
               THEN /\ action_history' = kept
                    /\ call' = [type |-> type, stage |-> "rate_limited",
                                admitted |-> FALSE, ran |-> FALSE]
                    /\ tasks' = Spawn(Drop(tasks, t), [t EXCEPT !.pc = "refusal"])
                    /\ UNCHANGED admitted
               ELSE /\ action_history' = Append(kept, now)
                    /\ admitted' = Append(admitted, now)
                    /\ call' = [type |-> type, stage |-> Dispatch(type),
                                admitted |-> TRUE, ran |-> TRUE]
                    /\ tasks' = Spawn(Drop(tasks, t), [t EXCEPT !.pc = "action"])
    /\ UNCHANGED <<max_actions, safety, nCalls, protected_user_ids, admin_user_ids,
                   max_timeout, job, nCommands, directive, findVars, parsed, clockVars, convVars,
                   budget, eager_clear,
                   conn, voice_client, active_voice_clients, loop, loopCancel, sound_files,
                   available_sounds, enabled, connectCalls, discCalls, played, emptyJoin,
                   nJoins, nSMJoins, nLeaves>>

\* the handlers are followed up to the await of the refusal or of the action handler
NextAdmit ==
    \/ \E u \in RateUsers : OnMessageAdmitted(u)
    \/ \E t \in Pending, type \in ResponseActions : ProcessMessage(t, type)
    \/ \E d \in AdmitGaps : Tick(d)

\* ------------------------------ ActionHandler: the moderation and dm handlers
\* a variant of is_protected_user without the manage_guild test
ProtectedWithoutManageGuild(m) ==
    \/ JsonString(m.id) \in protected_user_ids
    \/ JsonString(m.id) \in admin_user_ids
    \/ m.administrator

\* is_protected_user(member): str(member.id) in either list, or a permission flag
IsProtectedUser(m) ==
    \/ JsonString(m.id) \in protected_user_ids
    \/ JsonString(m.id) \in admin_user_ids
    \/ m.administrator
    \/ m.manage_guild

\* the coroutine calls channel.send(what) and is suspended in it
Sending(j, what) ==
    [j EXCEPT !.pc = "send", !.sending = what, !.attempts = Append(@, what)]

\* the handler calls member.timeout / member.ban / member.edit / member.send and is
\* suspended in it
Calling(j) ==
    [j EXCEPT !.pc = "platform",
              !.calls = Append(@, [op |-> j.type, id |-> j.member.id, minutes |-> j.minutes])]

\* a handler from find_member to its next await; j.member is what find_member answers
Resolve(j) ==
    IF j.member = NoMember THEN Sending(j, "not_found")
    ELSE IF j.type # "dm" /\ IsProtectedUser(j.member) THEN Sending(j, "protected")
    ELSE Calling(j)

\* a variant of the safety check of handle_timeout that lets the request through
Unclamped(d) == d

\* if minutes > max_timeout: minutes = max_timeout
Clamped(d) == IF d > max_timeout THEN max_timeout ELSE d

\* handle_timeout / handle_ban / handle_nickname / handle_dm up to the first await;
\* short: the directive has too few arguments
EnterHandler(type, short, target, arg) ==
    LET j == [NoJob EXCEPT !.type = type]
    IN IF short THEN Sending(j, "usage")
       ELSE IF type # "timeout" THEN Resolve([j EXCEPT !.member = target])
       ELSE IF ~arg.int THEN Sending(j, "not_a_number")
       ELSE LET k == [j EXCEPT !.member = target, !.d = arg.value,
                               !.minutes = Clamped(arg.value)]
            IN IF arg.value > max_timeout THEN Sending(k, "clamped") ELSE Resolve(k)

\* execute_action for a directive that names a handler type, up to the first await.
\* The handlers share nothing but action_history, which is read and written before
\* the first await, so one command at a time is followed.
ExecuteCommand(type, short, target, arg) ==
    /\ nCommands < MaxCommands
    /\ job.pc \in {"none", "done"}
    /\ nCommands' = nCommands + 1
    /\ IF ~IsActionEnabled(type)
       THEN /\ call' = [type |-> type, stage |-> "disabled", admitted |-> FALSE, ran |-> FALSE]
            /\ job' = Sending([NoJob EXCEPT !.type = type], "disabled")
            /\ UNCHANGED <<action_history, admitted>>
       ELSE LET kept == Recent(action_history)
            IN IF AtCapacity(kept)
               THEN /\ action_history' = kept
                    /\ call' = [type |-> type, stage |-> "rate_limited",
                                admitted |-> FALSE, ran |-> FALSE]
                    /\ job' = Sending([NoJob EXCEPT !.type = type], "rate_limited")
                    /\ UNCHANGED admitted
               ELSE /\ action_history' = Append(kept, now)
                    /\ admitted' = Append(admitted, now)
                    /\ call' = [type |-> type, stage |-> "dispatched",
                                admitted |-> TRUE, ran |-> TRUE]
                    /\ job' = EnterHandler(type, short, target, arg)
    /\ UNCHANGED <<max_actions, safety, nCalls, protected_user_ids, admin_user_ids,
                   max_timeout, directive, findVars, parsed, clockVars, convVars, voiceVars>>

\* the awaited channel.send returns or raises. The confirmation is sent inside the
\* handler's try; the other sends of a handler are outside it or inside an except
\* block, so what they raise reaches the except of execute_action, whose own send,
\* like the ones before its try, is covered by nothing.
SendDone(outcome) ==
    /\ job.pc = "send"
    /\ job' =
          IF outcome = "ok"
          THEN LET j == [job EXCEPT !.reports = Append(@, job.sending), !.sending = ""]
               IN IF job.sending = "clamped" THEN Resolve(j) ELSE [j EXCEPT !.pc = "done"]
          ELSE IF job.sending \in {"disabled", "rate_limited", "oops"}
          THEN [job EXCEPT !.pc = "done", !.sending = "", !.raised = TRUE]
          ELSE IF job.sending = "success" /\ outcome = "Forbidden"
          THEN Sending(job, "forbidden")
          ELSE IF job.sending = "success" /\ outcome = "HTTPException"
          THEN Sending(job, "http_error")
          ELSE IF job.sending = "couldnt_join"
          THEN Sending(job, "couldnt_join_outer")
          ELSE Sending(job, "oops")
    /\ UNCHANGED <<max_actions, safety, action_history, admitted, call, nCalls,
                   protected_user_ids, admin_user_ids, max_timeout, nCommands, directive, findVars,
                   parsed, clockVars, convVars, voiceVars>>

\* a variant of PlatformDone that takes a failed action out of action_history again
PlatformDoneRefunds(outcome) ==
    /\ job.pc = "platform"
    /\ job' =
          IF outcome = "ok" THEN Sending(job, "success")
          ELSE IF outcome = "Forbidden" THEN Sending([job EXCEPT !.failed = TRUE], "forbidden")
          ELSE IF outcome = "HTTPException"
          THEN Sending([job EXCEPT !.failed = TRUE], "http_error")
          ELSE Sending([job EXCEPT !.failed = TRUE], "oops")
    /\ action_history' =
          IF outcome = "ok" \/ action_history = <<>> THEN action_history
          ELSE SubSeq(action_history, 1, Len(action_history) - 1)
    /\ UNCHANGED <<max_actions, safety, admitted, call, nCalls,
                   protected_user_ids, admin_user_ids, max_timeout, nCommands, directive, findVars,
                   parsed, clockVars, convVars, voiceVars>>

\* the awaited member.timeout / member.ban / member.edit / member.send returns or raises
PlatformDone(outcome) ==
    /\ job.pc = "platform"
    /\ job' =
          IF outcome = "ok" THEN Sending(job, "success")
          ELSE IF outcome = "Forbidden" THEN Sending([job EXCEPT !.failed = TRUE], "forbidden")
          ELSE IF outcome = "HTTPException"
          THEN Sending([job EXCEPT !.failed = TRUE], "http_error")
          ELSE Sending([job EXCEPT !.failed = TRUE], "oops")
    /\ UNCHANGED <<max_actions, safety, action_history, admitted, call, nCalls,
                   protected_user_ids, admin_user_ids, max_timeout, nCommands, directive, findVars,
                   parsed, clockVars, convVars, voiceVars>>

\* the arguments that matter to a handler: only handle_timeout reads a duration
ArgsFor(type) == IF type = "timeout" THEN TimeoutArgs ELSE {NotANumber}

NextHandlers ==
    \/ \E type \in HandlerTypes, short \in BOOLEAN, target \in Members \cup {NoMember} :
          \E arg \in ArgsFor(type) : ExecuteCommand(type, short, target, arg)
    \/ \E outcome \in Outcomes : SendDone(outcome)
    \/ \E outcome \in Outcomes : PlatformDone(outcome)

\* the commands with a handler, followed to their end, next to directives that name
\* no action type or one execute_action has no handler for, an hour apart or less
QuotaTargets == {NoMember} \cup {m \in Members : ~m.administrator /\ ~m.manage_guild}
QuotaArgs(type) ==
    IF type = "timeout" THEN {NotANumber, [int |-> TRUE, value |-> 3]} ELSE {NotANumber}

NextQuota ==
    \/ \E type \in HandlerTypes, short \in BOOLEAN, target \in QuotaTargets :
          \E arg \in QuotaArgs(type) : ExecuteCommand(type, short, target, arg)
    \/ \E outcome \in Outcomes : SendDone(outcome)
    \/ \E outcome \in Outcomes : PlatformDone(outcome)
    \/ \E type \in {"", "dance"} : nCalls < MaxCommands /\ ExecuteAction(type)
    \/ \E d \in {ActionWindowSeconds} : Tick(d)

\* ------------------------- handle_voice_join: a failed connect and its reports
\* a variant of HvjConnectFailed in which the handler calls connect() once more
HvjConnectRetried(t) ==
    /\ t \in Pending /\ t.type = "hvj" /\ t.pc = "connecting"
    /\ job.pc \in {"none", "done"}
    /\ connectCalls' = [connectCalls EXCEPT ![t.g] = @ + 1]
    /\ job' = Sending([NoJob EXCEPT !.type = "vcjoin"], "couldnt_join")
    /\ UNCHANGED <<max_actions, safety, action_history, admitted, call, nCalls,
                   protected_user_ids, admin_user_ids, max_timeout, nCommands, directive, findVars,
                   parsed, clockVars, convVars, budget, eager_clear, conn, voice_client,
                   tasks, active_voice_clients, loop, loopCancel, sound_files,
                   available_sounds, enabled, discCalls, played, emptyJoin, nJoins,
                   nSMJoins, nLeaves>>

\* HvjConnected(t, FALSE) with the reports that follow it: connect() raises (or
\* returns None and the handler raises), the except of the inner try sends "I
\* couldn't join"; what that send raises reaches the outer except, whose send is
\* covered by execute_action's except only. One failure at a time is followed.
HvjConnectFailed(t) ==
    /\ t \in Pending /\ t.type = "hvj" /\ t.pc = "connecting"
    /\ job.pc \in {"none", "done"}
    /\ conn' = ConnAfterDisc(t.c)
    /\ voice_client' = ClientAfterDisc(t.c)
    /\ tasks' = Drop(tasks, t)
    /\ job' = Sending([NoJob EXCEPT !.type = "vcjoin"], "couldnt_join")
    /\ UNCHANGED <<max_actions, safety, action_history, admitted, call, nCalls,
                   protected_user_ids, admin_user_ids, max_timeout, nCommands, directive, findVars,
                   parsed, clockVars, convVars, budget, eager_clear,
                   active_voice_clients, loop, loopCancel, sound_files, available_sounds,
                   enabled, connectCalls, discCalls, played, emptyJoin, nJoins, nSMJoins,
                   nLeaves>>

\* join requests followed up to the open connection or the reported failure; the
\* sound loop, the players and auto_disconnect are still asleep
NextConnect ==
    \/ \E g \in Guilds : \E ch \in JoinChannels(g), arg \in JoinArgs : HandleVoiceJoin(g, ch, arg)
    \/ \E t \in Pending, sent \in BOOLEAN : HvjAck(t, sent)
    \/ \E t \in Pending : HvjSwitchDone(t)
    \/ \E t \in Pending : HvjGraceDone(t)
    \/ \E t \in Pending : HvjConnected(t, TRUE)
    \/ \E t \in Pending : HvjConnectFailed(t)
    \/ \E outcome \in Outcomes : SendDone(outcome)
    \/ \E t \in Pending, sent \in BOOLEAN : HvjJoined(t, sent)
    \/ \E t \in Pending : TimerMaxFire(t)
    \/ \E t \in Pending : TimerDiscDone(t)
    \/ \E g \in Guilds : \E ch \in JoinChannels(g) : JoinVoiceChannel(g, ch)
    \/ \E t \in Pending, ok \in BOOLEAN : JoinConnected(t, ok)

\* the duration arguments around the maximum: none, a negative one, one below and
\* one above MaxVoiceMinutes
ClampArgs == {<<>>, <<-1>>, <<MaxVoiceMinutes - 1>>, <<MaxVoiceMinutes + 1>>}

\* vcjoin commands of every duration followed up to their duration timers
NextDuration ==
    \/ \E g \in Guilds : \E ch \in JoinChannels(g), arg \in ClampArgs : HandleVoiceJoin(g, ch, arg)
    \/ \E t \in Pending, sent \in BOOLEAN : HvjAck(t, sent)
    \/ \E t \in Pending : HvjSwitchDone(t)
    \/ \E t \in Pending : HvjGraceDone(t)
    \/ \E t \in Pending, ok \in BOOLEAN : HvjConnected(t, ok)
    \/ \E t \in Pending, sent \in BOOLEAN : HvjJoined(t, sent)
    \/ \E t \in Pending : TimerMaxFire(t)
    \/ \E t \in Pending : TimerDiscDone(t)

\* vcjoin and join_voice_channel requests for one voice channel, none of them a leave:
\* a session ends when its timer, its scheduler or its loop ends it
NextTimers ==
    \/ \E g \in Guilds : HandleVoiceJoin(g, "a", <<>>)
    \/ \E t \in Pending, sent \in BOOLEAN : HvjAck(t, sent)
    \/ \E t \in Pending, ok \in BOOLEAN : HvjConnected(t, ok)
    \/ \E t \in Pending, sent \in BOOLEAN : HvjJoined(t, sent)
    \/ \E t \in Pending : LeaveTaskAwaited(t)
    \/ \E t \in Pending : LeaveDiscDone(t)
    \/ \E t \in Pending : TimerMaxFire(t)
    \/ \E t \in Pending : TimerDiscDone(t)
    \/ \E t \in Pending : TimerAutoFire(t)
    \/ \E g \in Guilds : JoinVoiceChannel(g, "a")
    \/ \E t \in Pending, ok \in BOOLEAN : JoinConnected(t, ok)
    \/ \E c \in ConnIds : LoopWake(c)
    \/ \E c \in ConnIds : LoopCancelled(c)
    \/ \E c \in ConnIds : PlayFinish(c)
    \/ \E c \in ConnIds, another \in BOOLEAN, leave \in BOOLEAN : AfterPlaying(c, another, leave)
    \/ \E t \in Pending : PlayNextSound(t)
    \/ \E t \in Pending : SchedDiscDone(t)

\* ------------------------------------------------------------ specifications
\* the voice engine, with the conversation engine and the dispatcher at rest
InitVoice ==
    /\ Start(MaxOps)
    /\ ClockStart /\ ConvStart(TRUE, {}) /\ ActionStart(DefaultMaxActions, AllEnabled)

SpecVoice == InitVoice /\ [][NextVoice]_vars

\* the event loop resumes every coroutine whose await is over: a handshake, a send or
\* a disconnect returns or raises, a sleep ends, a cancelled task is woken, a player
\* reaches the end of its sound. Requests and changes of the sounds directory come
\* from outside and are under no obligation.
FairVoice ==
    /\ WF_vars(\E t \in Pending, sent \in BOOLEAN : HvjAck(t, sent))
    /\ WF_vars(\E t \in Pending : HvjSwitchDone(t))
    /\ WF_vars(\E t \in Pending : HvjGraceDone(t))
    /\ WF_vars(\E t \in Pending, ok \in BOOLEAN : HvjConnected(t, ok))
    /\ WF_vars(\E t \in Pending, sent \in BOOLEAN : HvjJoined(t, sent))
    /\ WF_vars(\E t \in Pending : LeaveTaskAwaited(t))
    /\ WF_vars(\E t \in Pending : LeaveDiscDone(t))
    /\ WF_vars(\E t \in Pending : TimerMaxFire(t))
    /\ WF_vars(\E t \in Pending : TimerDiscDone(t))
    /\ WF_vars(\E t \in Pending : TimerAutoFire(t))
    /\ WF_vars(\E t \in Pending, ok \in BOOLEAN : JoinConnected(t, ok))
    /\ WF_vars(\E c \in ConnIds : LoopWake(c))
    /\ WF_vars(\E c \in ConnIds : LoopCancelled(c))
    /\ WF_vars(\E c \in ConnIds : PlayFinish(c))
    /\ WF_vars(\E c \in ConnIds, another \in BOOLEAN, leave \in BOOLEAN :
                  AfterPlaying(c, another, leave))
    /\ WF_vars(\E t \in Pending : PlayNextSound(t))
    /\ WF_vars(\E t \in Pending : SchedDiscDone(t))

\* the voice engine under fair scheduling
SpecVoiceFair == InitVoice /\ [][NextVoice]_vars /\ FairVoice

SpecDuration == InitVoice /\ [][NextDuration]_vars

\* the voice engine with a failing connect followed through its reports
SpecConnect == InitVoice /\ [][NextConnect]_vars

\* the SoundManager alone: join_voice_channel and leave_voice_channel requests
InitSound ==
    /\ Start(MaxSoundOps)
    /\ ClockStart /\ ConvStart(TRUE, {}) /\ ActionStart(DefaultMaxActions, AllEnabled)

SpecSound == InitSound /\ [][NextSound]_vars

\* the event loop resumes the loop task and the suspended calls of the SoundManager
FairLoop ==
    /\ WF_vars(\E t \in Pending : LeaveTaskAwaited(t))
    /\ WF_vars(\E t \in Pending : LeaveDiscDone(t))
    /\ WF_vars(\E t \in Pending, ok \in BOOLEAN : JoinConnected(t, ok))
    /\ WF_vars(\E c \in ConnIds : LoopCancelled(c))

SpecLoop == InitSound /\ [][NextLoop]_vars /\ FairLoop

\* sessions that follow one another in a guild, with the timers of the earlier ones
SpecTimers == InitSound /\ [][NextTimers]_vars

\* the voice engine at rest: no request, no connection
VoiceRest ==
    /\ Start(0)
    /\ eager_clear /\ sound_files /\ enabled

InitConv ==
    /\ \E mode \in BOOLEAN, listed \in SUBSET OneTextChannel : ConvStart(mode, listed)
    /\ ClockStart /\ VoiceRest /\ ActionStart(DefaultMaxActions, AllEnabled)

SpecConv == InitConv /\ [][NextConv]_vars

InitDirect ==
    /\ \E mode \in BOOLEAN, listed \in SUBSET (OneTextChannel \cup {DMChannel}) :
          ConvStart(mode, listed)
    /\ ClockStart /\ VoiceRest /\ ActionStart(DefaultMaxActions, AllEnabled)

SpecDirect == InitDirect /\ [][NextDirect]_vars

InitAction ==
    /\ \E capacity \in 0..MaxCapacity, flags \in SafetyConfigs : ActionStart(capacity, flags)
    /\ ClockStart /\ VoiceRest /\ ConvStart(TRUE, {})

SpecAction == InitAction /\ [][NextAction]_vars

\* the cooldown alone: no user has been answered yet
InitRate ==
    /\ wake_word_mode_enabled = TRUE
    /\ active_conversations = [ch \in OneTextChannel \cup {DMChannel} |-> NoConversation]
    /\ last_response = [u \in RateUsers |-> -1]
    /\ blacklist = {}
    /\ seenWake = [ch \in OneTextChannel \cup {DMChannel} |-> FALSE]
    /\ prevMsg = [ch \in OneTextChannel |-> -1]
    /\ spaced = [ch \in OneTextChannel |-> FALSE]
    /\ msg = NoMsg
    /\ check = NoCheck
    /\ nMsgs = 0 /\ nEdits = 0
    /\ ClockStart /\ VoiceRest /\ ActionStart(DefaultMaxActions, AllEnabled)

SpecRate == InitRate /\ [][NextRate]_vars

\* overlapping on_message handlers of two users, under each capacity
InitAdmit ==
    /\ wake_word_mode_enabled = TRUE
    /\ active_conversations = [ch \in OneTextChannel \cup {DMChannel} |-> NoConversation]
    /\ last_response = [u \in RateUsers |-> -1]
    /\ blacklist = {}
    /\ seenWake = [ch \in OneTextChannel \cup {DMChannel} |-> FALSE]
    /\ prevMsg = [ch \in OneTextChannel |-> -1]
    /\ spaced = [ch \in OneTextChannel |-> FALSE]
    /\ msg = NoMsg
    /\ check = NoCheck
    /\ nMsgs = 0 /\ nEdits = 0
    /\ \E capacity \in {1, MaxCapacity} : ActionStart(capacity, AllEnabled)
    /\ ClockStart /\ VoiceRest

SpecAdmit == InitAdmit /\ [][NextAdmit]_vars

\* the handlers of the moderation and dm commands, under each configuration
InitHandlers ==
    /\ \E capacity \in Capacities, flags \in SafetyConfigs :
          /\ max_actions = capacity
          /\ safety = flags
    /\ action_history = <<>> /\ admitted = <<>> /\ call = NoCall /\ nCalls = 0
    /\ \E lists \in IdConfigs, limit \in MaxTimeouts : HandlerStart(lists, limit)
    /\ ClockStart /\ VoiceRest /\ ConvStart(TRUE, {})

SpecHandlers == InitHandlers /\ [][NextHandlers]_vars

\* the action window under every kind of directive: member 1 is on the protected
\* list, the timeouts are switched on or off, the window holds one action or ten
InitQuota ==
    /\ \E capacity \in Capacities, flags \in SafetyConfigs :
          /\ max_actions = capacity
          /\ safety = flags
    /\ action_history = <<>> /\ admitted = <<>> /\ call = NoCall /\ nCalls = 0
    /\ HandlerStart(<<{JsonString(1)}, {}>>, DefaultMaxTimeout)
    /\ ClockStart /\ VoiceRest /\ ConvStart(TRUE, {})

SpecQuota == InitQuota /\ [][NextQuota]_vars

\* parse_action_args applied to every directive of up to MaxLen characters
InitParse ==
    /\ max_actions = DefaultMaxActions /\ safety = AllEnabled
    /\ action_history = <<>> /\ admitted = <<>> /\ call = NoCall /\ nCalls = 0
    /\ protected_user_ids = {} /\ admin_user_ids = {} /\ max_timeout = DefaultMaxTimeout
    /\ job = NoJob /\ nCommands = 0
    /\ directive \in Directives \cup Examples
    /\ parsed = NotParsed
    /\ FindRest
    /\ ClockStart /\ VoiceRest /\ ConvStart(TRUE, {})

SpecParse == InitParse /\ [][NextParse]_vars

\* find_member applied to every username of up to MaxLen characters, for every list
InitFind ==
    /\ max_actions = DefaultMaxActions /\ safety = AllEnabled
    /\ action_history = <<>> /\ admitted = <<>> /\ call = NoCall /\ nCalls = 0
    /\ protected_user_ids = {} /\ admin_user_ids = {} /\ max_timeout = DefaultMaxTimeout
    /\ job = NoJob /\ nCommands = 0
    /\ directive = <<>> /\ parsed = NotParsed
    /\ guild_members \in MemberLists
    /\ username \in Usernames
    /\ found = NotSought
    /\ ClockStart /\ VoiceRest /\ ConvStart(TRUE, {})

SpecFind == InitFind /\ [][NextFind]_vars

\* ------------------------------------------------------------------ properties
\* a connection that is being opened or is open / that the guild still holds
Live(c) == conn[c].st \in {"handshake", "open"}
Held(c) == conn[c].st \in {"handshake", "open", "closing"}

\* the scheduler of connection c has not ended: its sound_loop task, or a sleeping
\* play_next_sound
SchedulerAlive(c) ==
    \/ loop[c] \in {"init", "interval"}
    \/ \E t \in Pending : t.type = "next" /\ t.pc = "sleep" /\ t.c = c

\* the sleeping duration timers, as a set and as a bag
TimerTasks == {t \in Pending : t.type = "timer" /\ t.pc \in {"max", "auto"}}
Timers == [t \in TimerTasks |-> CopiesIn(t, tasks)]
TimerCount == BagCardinality(Timers)

\* the same-channel re-joins whose reply is being sent
RejoinAcks == {t \in Pending : t.type = "hvj" /\ t.pc = "ack"}
AckCount == BagCardinality([t \in RejoinAcks |-> CopiesIn(t, tasks)])

\* C1: every guild holds at most one voice connection, and while a connection of a
\* guild is being opened or is open, no scheduler of another (earlier) connection of
\* that guild is still alive: the old scheduler was cancelled and has ended.
C1_OneSession ==
    \A g \in Guilds :
        /\ Cardinality({c \in ConnIds : conn[c].g = g /\ Held(c)}) <= 1
        /\ \A c, d \in ConnIds :
              c # d /\ conn[c].g = g /\ conn[d].g = g /\ Live(c) => ~SchedulerAlive(d)

\* C2: leave_voice_channel calls, however they overlap, make at most one disconnect()
\* call on the session's connection.
C2_OneDisconnect == \A c \in ConnIds : discCalls[c].leave <= 1

\* C3: the maximum-duration timer and the playback scheduler never both call
\* disconnect() on the connection of a handle_voice_join session.
C3_TeardownOnce ==
    \A c \in ConnIds : ~(discCalls[c].timer >= 1 /\ discCalls[c].sched >= 1)

\* C4: leave_voice_channel for a guild without an entry in active_voice_clients calls
\* no disconnect(), cancels nothing, suspends nowhere and leaves the registry, the
\* connections and the tasks as they were.
C4_IdempotentLeave ==
    [][\A g \in Guilds :
          LeaveVoiceChannel(g) /\ active_voice_clients[g] = 0
             => UNCHANGED <<conn, voice_client, active_voice_clients, discCalls, tasks,
                            loop, loopCancel>>]_vars

\* C4, reached: two leave_voice_channel calls were made, the session was torn down by
\* one disconnect() and nothing of it is left.
C4_Reached ==
    \E c \in ConnIds :
        /\ nLeaves = 2 /\ conn[c].st = "closed" /\ discCalls[c].leave = 1
        /\ loop[c] = "done" /\ active_voice_clients[conn[c].g] = 0 /\ tasks = EmptyBag

C6_FirstTimerEndsAll ==
    \A t \in TimerTasks : ~(conn[t.c].st = "closed" /\ discCalls[t.c].timer >= 1)

C8_Timeout ==
    [][nMsgs' = nMsgs + 1 =>
          LET ch == msg'.ch
              conv == active_conversations[ch]
              counted == ~msg'.bot /\ ~IsBlacklistedChannel(ch)
              limit == ConversationTimeoutMinutes * 60
          IN wake_word_mode_enabled /\ conv.exists /\ conv.active =>
                /\ counted /\ now - conv.last_activity <= limit
                      => /\ active_conversations'[ch] =
                               [exists |-> TRUE, active |-> TRUE, last_activity |-> now]
                         /\ msg'.respond
                /\ ~msg'.bot /\ now - conv.last_activity > limit
                      => /\ active_conversations'[ch].active <=> (counted /\ msg'.match)
                         /\ msg'.respond => msg'.match \/ msg'.stage = "random"
                /\ msg'.bot => active_conversations'[ch] = conv]_vars

\* C8, reached: a message without the wake word, sent some time after the activation,
\* was treated as addressed and re-armed the conversation.
C8_Reached ==
    /\ msg.stage = "addressed" /\ ~msg.match /\ msg.ch \in TextChannels
    /\ active_conversations[msg.ch].active
    /\ active_conversations[msg.ch].last_activity = now /\ now > 0

\* C8 as stated: a channel in which every message since the activation came less than
\* the timeout after the one before it is active.
C8_SpacedStaysActive ==
    \A ch \in TextChannels : spaced[ch] => active_conversations[ch].active

\* C9: a channel that no user message matching the wake word or the bot name has
\* reached has no active conversation.
C9_IdleBeforeWake ==
    \A ch \in MsgChannels :
        ~seenWake[ch] => ~(active_conversations[ch].exists /\ active_conversations[ch].active)

\* C9, reached: the random roll made the bot answer in a channel that no matching
\* message has reached, and the channel is idle.
C9_Reached ==
    /\ msg.stage = "random" /\ msg.respond /\ msg.ch \in TextChannels
    /\ ~seenWake[msg.ch] /\ ~active_conversations[msg.ch].active

\* the admitted calls from the i-th on that fall into the hour starting with it
AdmittedFrom(i) ==
    {j \in i..Len(admitted) : admitted[j] - admitted[i] < ActionWindowSeconds}

\* C10: the calls admitted in any hour are at most max_actions, and a handler runs
\* only for an admitted call.
C10_Quota ==
    /\ \A i \in 1..Len(admitted) : Cardinality(AdmittedFrom(i)) <= max_actions
    /\ call.ran => call.admitted /\ call.stage = "dispatched"
    /\ call.stage = "rate_limited" => ~call.ran /\ Len(action_history) >= max_actions

\* C10, reached: with the quota used up, a call was rejected before any handler ran.
C10_Reached ==
    /\ call.stage = "rate_limited" /\ ~call.ran
    /\ max_actions = MaxCapacity /\ Len(admitted) >= max_actions

\* C11: a check_rate_limit call for a user that was admitted before is admitted exactly
\* when at least the cooldown has passed since the recorded admission, however long ago
\* that was.
C11_CooldownRoundTrip ==
    check.user # "" /\ check.prior # -1
        => (check.admitted <=> check.at - check.prior >= CommandCooldownSeconds)

\* C12: a rejected check_rate_limit call leaves every user's record as it was; an
\* admitted one records now for its own user and leaves the other users' records as
\* they were.
C12_RejectedKeepsRecord ==
    [][\A u \in RateUsers :
          CheckRateLimit(u) =>
             /\ \A v \in RateUsers \ {u} : last_response'[v] = last_response[v]
             /\ ~check'.admitted => last_response' = last_response
             /\ check'.admitted => last_response'[u] = now]_vars

\* C12, reached: a call was rejected inside the cooldown, the user's record is still
\* the earlier admission, and another user has a record of its own.
C12_Reached ==
    /\ check.user # "" /\ ~check.admitted
    /\ last_response[check.user] = check.prior /\ check.prior < check.at
    /\ \E v \in RateUsers \ {check.user} : last_response[v] # -1

\* the reports that tell the requester of a failure
FailureReports == {"forbidden", "http_error", "oops"}
Failures(reports) == SelectSeq(reports, LAMBDA r : r \in FailureReports)

\* the member's id is in one of the two lists, as a string or as a number
Listed(m) ==
    \E entry \in protected_user_ids \cup admin_user_ids : entry.id = m.id

\* C13: a timeout, ban or nickname command whose target is in the protected or admin
\* list as a string, or holds administrator or manage_guild, makes no platform call.
C13_ProtectedUntouched ==
    /\ job.type \in {"timeout", "ban", "nickname"}
    /\ job.member # NoMember
    /\ \/ JsonString(job.member.id) \in protected_user_ids \cup admin_user_ids
       \/ job.member.administrator \/ job.member.manage_guild
    => job.calls = <<>> /\ "success" \notin {job.attempts[i] : i \in DOMAIN job.attempts}

\* C13, reached: a timeout command for a listed member without permissions was
\* answered with the refusal, and nothing was called.
C13_Reached ==
    /\ job.type = "timeout" /\ job.pc = "done" /\ job.calls = <<>>
    /\ job.reports = <<"protected">>
    /\ ~job.member.administrator /\ ~job.member.manage_guild

\* C13 as stated: a target whose identifier is in the protected or admin list, in
\* whatever form the file holds it, is never passed to the platform.
C13_ListedUntouched ==
    /\ job.type \in {"timeout", "ban", "nickname"}
    /\ job.member # NoMember /\ Listed(job.member)
    => job.calls = <<>>

\* C14: every member.timeout call of a command that asked for d minutes is made with
\* min(d, max_timeout) minutes, which is at most max_timeout; the clamp report was
\* delivered before the call exactly when d > max_timeout, and it is the first thing
\* the handler sends.
C14_Clamp ==
    /\ \A i \in DOMAIN job.calls :
          job.calls[i].op = "timeout" =>
             /\ job.calls[i].minutes = Min2(job.d, max_timeout)
             /\ job.calls[i].minutes <= max_timeout
             /\ job.d > max_timeout <=> (job.reports # <<>> /\ job.reports[1] = "clamped")
             /\ job.d <= max_timeout => job.calls[i].minutes = job.d
    /\ job.type = "timeout" /\ job.d <= max_timeout
          => \A i \in DOMAIN job.attempts : job.attempts[i] # "clamped"
    /\ job.type = "timeout" /\ job.d > max_timeout /\ job.attempts # <<>>
          => job.attempts[1] = "clamped"

\* C14, reached: 999 minutes were asked for with a maximum of 60; the clamp was
\* reported and the member was timed out for 60 minutes.
C14_Reached ==
    /\ job.type = "timeout" /\ job.d = 999 /\ max_timeout = DefaultMaxTimeout
    /\ job.pc = "done" /\ job.reports = <<"clamped", "success">>
    /\ Len(job.calls) = 1 /\ job.calls[1].minutes = DefaultMaxTimeout

\* C19: when the platform call of a handler has failed, execute_action ends without
\* raising and exactly one failure report has reached the requester.
C19_FailureReportedOnce ==
    job.pc = "done" /\ job.failed
        => ~job.raised /\ Len(Failures(job.reports)) = 1


\* ---------------------------------------------------------------------- C15
\* The words of a backslash-free string as a shell reads them, position by position:
\* Open[i] is the quote that is open before character i ("" if none); a quote
\* character that opens or closes a run is a delimiter; a blank outside quotes is a
\* separator; a word is a maximal run of non-separators, less its delimiters.
RECURSIVE Ascending(_)
Ascending(S) ==
    IF S = {} THEN <<>>
    ELSE LET least == CHOOSE x \in S : \A y \in S : x <= y
         IN <<least>> \o Ascending(S \ {least})

ShellWords(s) ==
    LET Open[i \in 1..(Len(s) + 1)] ==
            IF i = 1 THEN ""
            ELSE IF Open[i - 1] = "" THEN (IF s[i - 1] \in Quotes THEN s[i - 1] ELSE "")
            ELSE IF s[i - 1] = Open[i - 1] THEN "" ELSE Open[i - 1]
        IsDelimiter(i) == s[i] \in Quotes /\ Open[i] \in {"", s[i]}
        IsSeparator(i) == s[i] \in ShlexWhitespace /\ Open[i] = ""
        starts == {i \in 1..Len(s) : ~IsSeparator(i) /\ (i = 1 \/ IsSeparator(i - 1))}
        EndOf(i) == CHOOSE j \in i..Len(s) :
                        /\ \A k \in i..j : ~IsSeparator(k)
                        /\ j = Len(s) \/ IsSeparator(j + 1)
        Word(i) == LET kept == Ascending({k \in i..EndOf(i) : ~IsDelimiter(k)})
                   IN [n \in 1..Len(kept) |-> s[kept[n]]]
        order == Ascending(starts)
    IN [n \in 1..Len(order) |-> Word(order[n])]

HasBackslash(s) == \E i \in 1..Len(s) : s[i] = Escape

\* C15 (as amended): for a directive in which neither a quote is left open nor a
\* backslash is left with nothing after it, parse_action_args returns the shell-style
\* split - the kind is the lower-cased first word, the args are the other words in
\* order, each quoted run being one argument without its quotes (checked against
\* ShellWords for every backslash-free directive); an empty or blank directive gives
\* the empty kind and no args; a directive that ends in a dangling backslash is
\* split naively instead, its quotes kept.
C15_ShellStyleSplit ==
    parsed.done =>
        LET t == Strip(directive)
            r == ShlexSplit(t)
        IN /\ r.error = "" => ~parsed.fallback /\ ~parsed.raised
           /\ r.error = "" /\ ~HasBackslash(t) =>
                  LET words == ShellWords(t)
                  IN IF words = <<>> THEN parsed.kind = <<>> /\ parsed.args = <<>>
                     ELSE parsed.kind = Lower(Head(words)) /\ parsed.args = Tail(words)
           /\ t = <<>> => parsed.kind = <<>> /\ parsed.args = <<>>
           /\ r.error = "No escaped character" =>
                  /\ parsed.fallback
                  /\ parsed.kind = Lower(Head(NaiveSplit(t)))
                  /\ parsed.args = Tail(NaiveSplit(t))

\* timeout "a b" 5 has been parsed into timeout, <<"a b", "5">>
C15_Reached ==
    /\ parsed.done
    /\ directive \in Examples
    /\ parsed.kind = <<"t", "i", "m", "e", "o", "u", "t">>
    /\ parsed.args = << <<"a", " ", "b">>, <<"5">> >>

\* C15 as stated: every directive without an unterminated quote is split shell-style,
\* so no quoted run keeps its quotes.
C15_NoOpenQuoteIsShellSplit ==
    parsed.done /\ ShlexSplit(Strip(directive)).error # "No closing quotation"
        => ~parsed.fallback

\* ---------------------------------------------------------------------- C16
\* C16: parse_action_args returns a kind and args for every string and never raises;
\* for a directive with an unterminated quote they are the naive whitespace split of
\* the stripped directive (first word lower-cased as kind, the rest as args), and
\* execute_action goes on with that kind.
C16_DegradesToNaiveSplit ==
    parsed.done =>
        LET t == Strip(directive)
        IN /\ ~parsed.raised
           /\ ShlexSplit(t).error = "No closing quotation" =>
                  /\ NaiveSplit(t) # <<>>
                  /\ parsed.kind = Lower(Head(NaiveSplit(t)))
                  /\ parsed.args = Tail(NaiveSplit(t))
                  /\ parsed.proceeds

\* B 'a has been parsed into b, <<"'a">>
C16_Reached ==
    /\ parsed.done
    /\ directive = <<"B", " ", "'", "a">>
    /\ parsed.fallback
    /\ parsed.kind = <<"b">>
    /\ parsed.args = << <<"'", "a">> >>
    /\ parsed.proceeds


\* ---------------------------------------------------------------------- C17
\* C17 (as amended): when a user's message reaches a channel that is not blacklisted
\* and whose conversation is active with at most the timeout passed since
\* last_activity, the message is treated as addressed whether or not it matches the
\* wake word or the name, the conversation stays active and last_activity becomes
\* the time of the message.
C17_ActiveIsAddressed ==
    [][nMsgs' = nMsgs + 1 /\ ~msg'.bot /\ ~IsBlacklistedChannel(msg'.ch)
          /\ IsConversationActive(active_conversations, msg'.ch)
          /\ ~TimedOut(active_conversations[msg'.ch])
       => /\ msg'.stage = "addressed" /\ msg'.respond
          /\ active_conversations'[msg'.ch].active
          /\ active_conversations'[msg'.ch].last_activity = now]_vars

\* C17, reached: a message without wake word or name, a timeout or more after the
\* start, was addressed and answered, and the timeout is measured from it.
C17_Reached ==
    /\ msg.stage = "addressed" /\ ~msg.match /\ msg.processed /\ msg.ch \in TextChannels
    /\ nMsgs >= 2 /\ now >= ConversationTimeoutMinutes * 60
    /\ active_conversations[msg.ch].active
    /\ active_conversations[msg.ch].last_activity = now

\* C17 as stated: every user message in a channel whose conversation is active and
\* not timed out is treated as addressed and sets last_activity to its time.
C17_EveryMessageInActive ==
    [][nMsgs' = nMsgs + 1 /\ ~msg'.bot
          /\ IsConversationActive(active_conversations, msg'.ch)
          /\ ~TimedOut(active_conversations[msg'.ch])
       => /\ msg'.respond
          /\ active_conversations'[msg'.ch].last_activity = now]_vars

\* ---------------------------------------------------------------------- C18
\* C18: a message in a blacklisted text channel leaves the channel's conversation
\* (active flag and last_activity) as it was, also when the conversation is active
\* and its timeout has passed, and is not answered.
C18_BlacklistedUntouched ==
    [][nMsgs' = nMsgs + 1 /\ IsBlacklistedChannel(msg'.ch)
       => /\ active_conversations'[msg'.ch] = active_conversations[msg'.ch]
          /\ ~msg'.respond /\ ~msg'.processed]_vars

\* ---------------------------------------------------------------------- C20
\* C20: a user's message in the DM channel is treated as addressed - the decision is
\* to respond - whatever its text, the wake-word mode, the conversations, the roll and
\* the blacklist; it is never a random response.
C20_DirectIsAddressed ==
    [][nMsgs' = nMsgs + 1 /\ msg'.ch = DMChannel /\ ~msg'.bot
       => msg'.respond /\ msg'.stage = "addressed"]_vars

\* C20, reached: a DM without wake word or name was addressed while the blacklist
\* names the DM channel.
C20_Reached ==
    /\ msg.ch = DMChannel /\ ~msg.bot /\ ~msg.match /\ DMChannel \in blacklist
    /\ msg.respond /\ msg.stage = "addressed"


\* ---------------------------------------------------------------------- C26
\* C26: after every check_action_rate_limit call, every timestamp left in
\* action_history is less than an hour older than the now of that call, whatever time
\* passed between the calls.
C26_WindowHoldsFreshOnly ==
    [][nCalls' = nCalls + 1 /\ call'.stage \in {"rate_limited", "dispatched", "unknown"}
       => \A i \in DOMAIN action_history' :
             now - action_history'[i] < ActionWindowSeconds]_vars

\* ---------------------------------------------------------------------- C27
\* C27: a timeout command that ends with the "not found" or the "protected" report
\* has sent the requester nothing else; in particular no clamp report.
C27_FailureIsOnlyOutcome ==
    /\ job.type = "timeout" /\ job.pc = "done"
    /\ \E i \in DOMAIN job.reports : job.reports[i] \in {"not_found", "protected"}
    => Len(job.reports) = 1

\* ---------------------------------------------------------------------- C28
\* the type is switched off by one of the safety.enable_* flags
DisabledByPolicy(type) ==
    \/ type = "timeout" /\ ~safety.enable_timeouts
    \/ type = "ban" /\ ~safety.enable_bans
    \/ type = "nickname" /\ ~safety.enable_nicknames

\* the elements of a sequence
Range(seq) == {seq[i] : i \in DOMAIN seq}

\* C28: an execute_action call for a type that is switched off is answered as
\* disabled without check_action_rate_limit being asked: action_history is left as
\* it is, stale entries included, nothing is admitted and no handler runs. A call
\* rejected by check_action_rate_limit runs no handler and admits nothing, and
\* action_history is what it was less entries that are at least an hour old.
C28_ShortCircuit ==
    [][nCalls' = nCalls + 1 =>
          /\ DisabledByPolicy(call'.type)
                => /\ call'.stage = "disabled" /\ ~call'.ran /\ ~call'.admitted
                   /\ UNCHANGED <<action_history, admitted>>
          /\ call'.stage = "rate_limited"
                => /\ ~call'.ran /\ ~call'.admitted
                   /\ admitted' = admitted
                   /\ action_history' =
                         SelectSeq(action_history, LAMBDA t : t \in Range(action_history'))
                   /\ \A t \in Range(action_history) \ Range(action_history') :
                         now - t >= ActionWindowSeconds]_vars

\* C28, reached: with the quota used up, a call for a disabled type was answered as
\* disabled, not as rate-limited, and the window holds what it held.
C28_Reached ==
    /\ call.stage = "disabled" /\ DisabledByPolicy(call.type)
    /\ max_actions > 0 /\ Len(action_history) = max_actions
    /\ action_history = admitted

\* ---------------------------------------------------------------------- C29
\* C29: the "action disabled" answer is given only for a type execute_action has a
\* handler for; a type it has none for gets the "I don't know how to do" answer.
C29_UnknownIsNotDisabled ==
    /\ call.stage = "disabled" => call.type \in HandledTypes
    /\ call.type # "" /\ call.type \notin HandledTypes /\ call.stage # "rate_limited"
          => call.stage = "unknown"


\* ---------------------------------------------------------------------- C21
\* C21: while leave_voice_channel has the disconnect() of a session's connection
\* under way, the sound_loop task of the session has ended and the session's entry
\* is still in active_voice_clients: the entry is removed after the disconnect, by
\* leave_voice_channel itself.
C21_TeardownOrder ==
    \A c \in ConnIds :
        conn[c].by = "sm" /\ conn[c].st = "closing" /\ discCalls[c].leave >= 1
            => loop[c] = "done" /\ active_voice_clients[conn[c].g] = c

\* ---------------------------------------------------------------------- C22
\* C22: when after_playing runs on a connected client and both draws miss, a
\* coroutine that will play the next sound after the interval is left sleeping.
C22_LoopContinues ==
    [][\A c \in ConnIds :
          AfterPlaying(c, FALSE, FALSE) /\ IsConnected(c)
             => \E t \in Pending' :
                   /\ t.c = c /\ t.pc = "sleep"
                   /\ CopiesIn(t, tasks') = CopiesIn(t, tasks) + 1]_vars

\* ---------------------------------------------------------------------- C24
\* the guild has an open connection to another channel than ch
ElsewhereConns(g, ch) == {c \in ConnIds : conn[c].g = g /\ conn[c].st = "open" /\ conn[c].ch # ch}

\* C24: a join request, through handle_voice_join or join_voice_channel, for a guild
\* with an open connection to another channel starts by disconnecting that
\* connection; and when, the grace delay over, the new connection is opened, no
\* duration timer and no scheduler of an earlier connection of the guild is pending.
C24_SwitchTearsDownFirst ==
    [][/\ \A g \in Guilds, ch \in Channels :
             /\ \/ \E arg \in DurationArgs : HandleVoiceJoin(g, ch, arg)
                \/ JoinVoiceChannel(g, ch) /\ enabled /\ available_sounds
             => \A c \in ElsewhereConns(g, ch) : conn'[c].st \in {"closing", "closed"}
       /\ \A t \in Pending :
             HvjGraceDone(t)
             => \A u \in Pending :
                   u.type \in {"timer", "next"} /\ u.pc \in {"max", "auto", "sleep"}
                      => u.g # t.g]_vars

\* ---------------------------------------------------------------------- C25
\* a leave_voice_channel call for the guild is suspended in one of its awaits
TeardownPending(g) ==
    \E t \in Pending : t.type \in {"leave", "leave_auto"} /\ t.g = g

\* C25: a join_voice_channel call made while a leave_voice_channel call for the same
\* guild is suspended is not answered from the entry of the session that is being
\* torn down.
C25_JoinWaitsForTeardown ==
    [][\A g \in Guilds, ch \in Channels :
          JoinVoiceChannel(g, ch) /\ enabled /\ available_sounds
             => ~(TeardownPending(g) /\ InRegistry(g))]_vars


\* ---------------------------------------------------------------------- C23
\* C23: under fair scheduling every connection that was opened is eventually closed
\* and no longer the guild's voice client.
C23_EventuallyTornDown ==
    \A c \in ConnIds :
        conn[c].st = "open"
            ~> (conn[c].st = "closed" /\ \A g \in Guilds : voice_client[g] # c)


\* ---------------------------------------------------------------------- C30
\* a connection whose connect() failed: it is closed without ever having been
\* disconnected by anyone
Failed(c) == conn[c].st = "closed" /\ discCalls[c] = NoCalls

C31_CancelStopsLoop ==
    /\ [][\A c \in ConnIds :
            loopCancel[c] /\ loop[c] # "done" =>
               /\ loop'[c] \in {loop[c], "done"}
               /\ played'[c] = played[c]
               /\ conn'[c].playing => conn[c].playing]_vars
    /\ \A c \in ConnIds : loopCancel[c] ~> loop[c] = "done"
    /\ \A g \in OneGuild : TeardownPending(g) ~> ~TeardownPending(g)

\* C31, reached: a loop was cancelled in its back-off sleep, or in its interval
\* sleep; it has ended and the leave_voice_channel call that awaited it is over.
C31_Reached ==
    \E c \in ConnIds :
        /\ loopCancel[c] /\ loop[c] = "done" /\ discCalls[c].leave = 1
        /\ conn[c].st = "closed" /\ ~TeardownPending(conn[c].g)
        /\ active_voice_clients[conn[c].g] = 0

\* ---------------------------------------------------------------------- C32
\* C32: however on_message handlers and their dispatches overlap, no two handlers
\* of one user that are under way were admitted less than the cooldown apart, the
\* record of a user is the time of its latest admission, the dispatches admitted
\* within any hour are at most max_actions, and every handler inside an action
\* handler has its entry in the admissions.
C32_AtomicAdmission ==
    /\ \A t \in Handlers :
          /\ CopiesIn(t, tasks) = 1
          /\ last_response[t.g] >= t.min
          /\ \A u \in Handlers \ {t} :
                u.g = t.g => u.min - t.min >= CommandCooldownSeconds
                             \/ t.min - u.min >= CommandCooldownSeconds
    /\ \A i \in 1..Len(admitted) : Cardinality(AdmittedFrom(i)) <= max_actions
    /\ BagCardinality([t \in {h \in Handlers : h.pc = "action"} |-> CopiesIn(t, tasks)])
          <= Len(admitted)

\* C32, reached: the handlers of two users admitted at the same moment are both
\* under way, one inside its action and the other refused by the quota, and a
\* third message, sent inside the cooldown, was rejected.
C32_Reached ==
    /\ max_actions = 1 /\ call.stage = "rate_limited" /\ Len(admitted) = 1
    /\ nMsgs = 3 /\ now < CommandCooldownSeconds /\ BagCardinality(tasks) = 2
    /\ \E t, u \in Handlers :
          t.g # u.g /\ t.min = u.min /\ t.pc = "action" /\ u.pc = "refusal"

\* ---------------------------------------------------------------------- C33
\* the username names the identifier id: it is the decimal digits of id, bare or
\* inside the mention markup
Names(name, id) ==
    LET digits == StripMarkup(name)
    IN digits # <<>> /\ (\A i \in DOMAIN digits : digits[i] \in DecimalChars) /\ IntOf(digits) = id

\* the member the stated rule picks: by identifier, else the first whose name or
\* display name equals the username, else the first whose name or display name
\* contains it (letter case ignored), else nobody
Resolved(list, name) ==
    LET byId == First(list, LAMBDA m : Names(name, m.id))
        exact == First(list, LAMBDA m : \/ Lower(m.name) = Lower(name)
                                         \/ Lower(m.display_name) = Lower(name))
        partial == First(list, LAMBDA m : \/ Contains(Lower(m.name), Lower(name))
                                           \/ Contains(Lower(m.display_name), Lower(name)))
    IN IF byId # Nobody THEN byId ELSE IF exact # Nobody THEN exact ELSE partial

\* C33: find_member returns, for every member list and username, the member the
\* stated rule picks, and nobody when the rule picks none; it does not raise.
C33_ResolutionOrder ==
    found.done => ~found.raised /\ found.member = Resolved(guild_members, username)

\* ---------------------------------------------------------------------- C34
\* the tasks a step has added to the suspended coroutines
Added == {t \in Pending' : CopiesIn(t, tasks') > CopiesIn(t, tasks)}

\* C34 (as amended): a vcjoin command that asks for d minutes goes on with
\* min(d, 30) minutes, and with 5 when it names no duration; its first await is the
\* reply to a re-join, the disconnect of a switch or the connect, never a report of
\* the clamping; every duration timer it creates once its reply or confirmation is
\* sent sleeps for exactly those minutes; no coroutine carries more than 30.
C34_ClampedDuration ==
    [][/\ \A g \in Guilds, ch \in Channels, arg \in ClampArgs :
             HandleVoiceJoin(g, ch, arg) =>
                \A t \in Added :
                   /\ t.type = "hvj" /\ t.pc \in {"ack", "switch", "connecting"}
                   /\ t.min = IF arg = <<>> THEN DefaultVoiceMinutes
                              ELSE Min2(arg[1], MaxVoiceMinutes)
       /\ \A t \in Pending :
             t.type = "hvj" /\ (HvjJoined(t, TRUE) \/ HvjAck(t, TRUE)) =>
                /\ Added # {}
                /\ \A timer \in Added :
                      timer.type = "timer" /\ timer.min = t.min /\ timer.c = t.c
       /\ \A t \in Pending' : t.min <= MaxVoiceMinutes]_vars

\* C34, reached: a command asked for more than the maximum; its connection is open
\* and its max_time_disconnect sleeps for the maximum.
C34_Reached ==
    \E t \in TimerTasks :
        t.pc = "max" /\ t.min = MaxVoiceMinutes /\ conn[t.c].st = "open" /\ nJoins = 1

\* C34 as stated: as in handle_timeout, a command that asks for more than the maximum
\* is suspended in the send of the clamp report before it goes on.
C34_ClampReported ==
    [][\A g \in Guilds, ch \in Channels, arg \in ClampArgs :
          HandleVoiceJoin(g, ch, arg) /\ arg # <<>> /\ arg[1] > MaxVoiceMinutes =>
             \E t \in Added : t.type = "hvj" /\ t.pc = "clamped"]_vars

\* ------------------------------------------------- two guilds, two text channels
\* the texts of a run over several channels: one with the wake word, one without
KeyTexts == {content \in Contents : content.score = 0}
KeyGaps  == {ConversationTimeoutMinutes * 60 + 1}

\* messages of a user in the channels, while no voice request has been made
KeyMessages ==
    /\ Invocations = 0
    /\ \/ \E ch \in MsgChannels, u \in Users, content \in KeyTexts, roll \in {1} :
             OnMessage(ch, u, FALSE, content, roll)
       \/ \E d \in KeyGaps : Tick(d)

\* the steps of the voice engine that belong to guild g: its requests, the steps of
\* its handlers, timers and teardowns, of its loops and of its players
VoiceStep(g) ==
    \/ \E ch \in JoinChannels(g) : HandleVoiceJoin(g, ch, <<>>)
    \/ \E t \in Pending : t.g = g /\ HvjAck(t, TRUE)
    \/ \E t \in Pending : t.g = g /\ HvjSwitchDone(t)
    \/ \E t \in Pending : t.g = g /\ HvjGraceDone(t)
    \/ \E t \in Pending : t.g = g /\ HvjConnected(t, TRUE)
    \/ \E t \in Pending : t.g = g /\ HvjJoined(t, TRUE)
    \/ LeaveVoiceChannel(g)
    \/ \E t \in Pending : t.g = g /\ LeaveTaskAwaited(t)
    \/ \E t \in Pending : t.g = g /\ LeaveDiscDone(t)
    \/ \E t \in Pending : t.g = g /\ TimerMaxFire(t)
    \/ \E t \in Pending : t.g = g /\ TimerDiscDone(t)
    \/ \E t \in Pending : t.g = g /\ TimerAutoFire(t)
    \/ \E ch \in JoinChannels(g) : JoinVoiceChannel(g, ch)
    \/ \E t \in Pending : t.g = g /\ JoinConnected(t, TRUE)
    \/ \E c \in ConnIds : conn[c].g = g /\ LoopWake(c)
    \/ \E c \in ConnIds : conn[c].g = g /\ LoopCancelled(c)
    \/ \E c \in ConnIds : conn[c].g = g /\ PlayFinish(c)
    \/ \E c \in ConnIds, another \in BOOLEAN, leave \in BOOLEAN :
          conn[c].g = g /\ AfterPlaying(c, another, leave)
    \/ \E t \in Pending : t.g = g /\ PlayNextSound(t)
    \/ \E t \in Pending : t.g = g /\ SchedDiscDone(t)

\* voice requests for the guilds, in a run without messages
KeyVoice == nMsgs = 0 /\ nTicks = 0 /\ \E g \in Guilds : VoiceStep(g)

NextKeys == KeyMessages \/ KeyVoice

InitKeys ==
    /\ StartIn(MaxOps, TwoGuilds)
    /\ eager_clear /\ sound_files /\ enabled
    /\ ClockStart /\ ConvStartIn(TRUE, {}, TwoTextChannels)
    /\ ActionStart(DefaultMaxActions, AllEnabled)

SpecKeys == InitKeys /\ [][NextKeys]_vars

\* what the bot holds for channel ch, and for guild h: the session record, the
\* registry entry, the connections, their loops and players, and the pending tasks
ConversationOf(ch) == active_conversations[ch]
SessionOf(h) ==
    <<voice_client[h], active_voice_clients[h],
      [c \in ConnIds |-> IF conn[c].g = h
                         THEN <<conn[c], loop[c], loopCancel[c], discCalls[c]>>
                         ELSE <<>>],
      [t \in {task \in Pending : task.g = h} |-> CopiesIn(t, tasks)]>>

\* C35: a message in channel A leaves the conversation record of every other channel
\* as it was, and a step of the voice engine for guild G (a join, a timer expiry, a
\* step of the loop or of the scheduler, a teardown) leaves the session of every
\* other guild H as it was: its record, its registry entry, its connections and its
\* pending timers and tasks.
C35_KeyedSessions ==
    [][/\ nMsgs' # nMsgs =>
             \A ch \in MsgChannels \ {msg'.ch} : ConversationOf(ch)' = ConversationOf(ch)
       /\ \A g \in Guilds : VoiceStep(g) =>
             \A h \in Guilds \ {g} : SessionOf(h)' = SessionOf(h)]_vars

\* the timer of one guild has disconnected its connection while the other guild's
\* session is open with its own timer pending
C35_Reached ==
    \E c \in ConnIds, d \in ConnIds :
        /\ conn[c].g = "g1" /\ conn[c].st = "closed" /\ discCalls[c].timer > 0
        /\ conn[d].g = "g2" /\ conn[d].st = "open" /\ voice_client["g2"] = d
        /\ \E t \in TimerTasks : t.g = "g2" /\ t.c = d

\* C36: whenever the handler of a vcjoin whose connect succeeded finishes - the
\* "I joined" message sent or its send failed - it has started a maximum-duration
\* timer for the connection it opened: one more max_time_disconnect task of that
\* connection is pending after the step than before.
C36_TimerOnEveryPath ==
    [][\A t \in Pending, sent \in BOOLEAN :
          HvjJoined(t, sent) =>
             LET timer == Task("timer", "max", t.g, t.c, "", t.min)
             IN CopiesIn(timer, tasks') > CopiesIn(timer, tasks)]_vars

\* the teardowns a step has started: the leave_voice_channel calls of expired
\* auto_disconnect timers that are pending after it and were not before
TeardownsBegun ==
    {t \in BagToSet(tasks') : t.type = "leave_auto" /\ CopiesIn(t, tasks') > CopiesIn(t, tasks)}

\* C37: the expiry of a duration timer acts on the session it was started for only: in
\* the step in which max_time_disconnect, timeout_disconnect or auto_disconnect wakes,
\* every other connection keeps its state, its disconnect() calls and its loop, the
\* registry entry of another connection stays, and the teardown the step starts, if
\* any, is that of the timer's own connection.
C37_TimerOwnSession ==
    [][\A t \in Pending :
          TimerMaxFire(t) \/ TimerAutoFire(t) =>
             /\ \A d \in ConnIds \ {t.c} :
                   /\ conn'[d] = conn[d] /\ discCalls'[d] = discCalls[d]
                   /\ loopCancel'[d] = loopCancel[d]
                   /\ active_voice_clients[t.g] = d => active_voice_clients'[t.g] = d
             /\ \A task \in TeardownsBegun : task.c = t.c]_vars

\* the steps in which the coroutine of a duration timer reaches its send of "Time's
\* up! Leaving the voice channel now!": max_time_disconnect and timeout_disconnect
\* when the disconnect() they awaited returns, auto_disconnect when its
\* leave_voice_channel call returns - at once, or after the awaits the call made
TimesUpSent(t) ==
    \/ TimerDiscDone(t)
    \/ TimerAutoFire(t) /\ TeardownsBegun = {}
    \/ t.type = "leave_auto" /\ LeaveTaskAwaited(t) /\ tasks' = Drop(tasks, t)
    \/ t.type = "leave_auto" /\ LeaveDiscDone(t)

\* C38: a duration timer reaches the send of the "Time's up!" notification only when
\* a disconnect() that its own expiry called has returned; an expiry that finds the
\* client disconnected, or whose leave_voice_channel call finds no entry for the
\* guild or nothing connected to release, sends no notification.
C38_NoticeAfterRelease ==
    [][\A t \in Pending : TimesUpSent(t) => t.pc = "disc"]_vars

\* C39: a command of an enabled kind that check_action_rate_limit lets through adds
\* one entry, the time of the call, to the entries of action_history that are inside
\* the window; no later step of the command - a usage or not-a-number report, a
\* target that is not found or is protected, a platform call or a send that raises -
\* takes it out again. A directive that is empty, of a kind that is switched off or
\* of a kind without a handler leaves action_history as it was.
C39_FailedActionsCount ==
    [][/\ nCommands' # nCommands \/ nCalls' # nCalls =>
             IF call'.admitted
             THEN action_history' = Append(Recent(action_history), now)
             ELSE call'.stage \in {"disabled", "unparsed"} => action_history' = action_history
       /\ nCommands' = nCommands /\ nCalls' = nCalls /\ job' # job =>
             action_history' = action_history]_vars

\* a command whose platform call failed has ended, and its entry is in the window
C39_Reached ==
    /\ job.pc = "done" /\ job.failed
    /\ action_history # <<>> /\ action_history[Len(action_history)] = now

\* the play_next_sound tasks of connection c that are asleep
Continuations(c) ==
    [t \in {task \in Pending : task.type = "next" /\ task.pc = "sleep" /\ task.c = c} |->
        CopiesIn(t, tasks)]

\* C40: every connection has at most one play_next_sound task asleep, and none while
\* its player is running; and voice_client.play is called - by the handler after the
\* "I joined" message, by play_next_sound, by the loop's play_random_sound - only on
\* a client that is not playing.
C40_OnePlaybackChain ==
    /\ [](\A c \in ConnIds :
             /\ BagCardinality(Continuations(c)) <= 1
             /\ conn[c].playing => BagCardinality(Continuations(c)) = 0)
    /\ [][/\ \A t \in Pending :
                \/ HvjJoined(t, TRUE) /\ sound_files /\ IsConnected(t.c)
                \/ PlayNextSound(t) /\ sound_files /\ IsConnected(t.c)
                => ~conn[t.c].playing
          /\ \A c \in ConnIds :
                LoopWake(c) /\ played'[c] # played[c] => ~conn[c].playing]_vars

\* the first sound of a handle_voice_join session has ended and the task that will
\* play the next one is asleep
C40_Reached ==
    \E c \in ConnIds :
        /\ conn[c].by = "h" /\ IsConnected(c) /\ played[c] /\ ~conn[c].playing
        /\ BagCardinality(Continuations(c)) = 1

====
